---------------------------- MODULE Spec2Model ----------------------------
(***************************************************************************)
(* A model of the symbolic stack tracker of rust-bitcoin-script-stack:     *)
(* StackData (the symbolic model and its redo log), StackTracker (the      *)
(* verbs, the script list and the history) and the script executor the     *)
(* debugger drives.                                                        *)
(*                                                                         *)
(* Conventions.  A Vec is a sequence whose last element is the top.  A     *)
(* StackVariable is a record [id, size].  A String is a sequence of        *)
(* tokens, so that format!() is concatenation.  A Script is a sequence of  *)
(* instructions [op, n].  A panic of the program is modelled by the guard  *)
(* of the action being false: the program stops there.                     *)
(***************************************************************************)
EXTENDS Integers, Sequences, FiniteSets, TLC

VARIABLES
    data,            \* StackTracker.data : StackData
    script,          \* StackTracker.script : Vec<Script>
    history,         \* StackTracker.history : Vec<u32>
    counter,         \* StackTracker.counter
    max_stack_size,  \* StackTracker.max_stack_size
    with_history,    \* StackTracker.with_history
    breakpoint,      \* StackTracker.breakpoint : Vec<(u32, String)>
    handles,         \* the StackVariable values the caller holds (they are Copy)
    snaps,           \* history variable: the model after each journaled mutation
    last,            \* history variable: the verb of the last step and its inputs
    nverbs,          \* history variable: the number of calls made so far
    input,           \* the script handed to optimize
    overflow_checks, \* whether the build checks integer overflow
    outcome,         \* of the call of optimize: "ready" before it
    optimized,       \* the script optimize returned
    origin,          \* history variable: where each output instruction comes from
    branches,        \* the branch trackers open_if returned, until end_if
    loop,            \* optimize: instructions, len and i of the while loop
    res,             \* the StepResult of the last call of execute_step
    session          \* interactive: step, max_step, bp_name, trim

vars == <<data, script, history, counter, max_stack_size, with_history,
          breakpoint, handles, snaps, last, nverbs,
          input, overflow_checks, outcome, optimized, origin, branches,
          loop, res, session>>

\* the state of the call of optimize
optvars == <<input, overflow_checks, outcome, optimized, origin, loop>>

\* the state of the debugger
dbgvars == <<res, session>>

-----------------------------------------------------------------------------
(* Bounds of the exploration.                                              *)

\* the caller makes at most MaxVerbs calls on a tracker
MaxVerbs == 3
\* at most MaxOps mutating operations are applied directly to a StackData
MaxOps == 3

\* sizes the caller declares for a variable; 0 is allowed by the code
Sizes == {0, 1, 2}
\* ids and sizes a caller of StackData gives the variables it builds itself
DataIds == {1, 2}
DataSizes == {0, 2}
\* names a caller of StackData sets
DataNames == {<<"var1">>, <<"var2">>}

-----------------------------------------------------------------------------
(* Helpers on sequences.                                                   *)

Last(s) == s[Len(s)]

Front(s) == SubSeq(s, 1, Len(s) - 1)

RECURSIVE SumSize(_)
\* stack.iter().fold(0, |acc, f| acc + f.size)
SumSize(s) == IF s = <<>> THEN 0 ELSE s[1].size + SumSize(Tail(s))

RECURSIVE Retain(_, _)
\* Vec::retain(|x| x.id != id)
Retain(s, id) ==
    IF s = <<>> THEN <<>>
    ELSE IF s[1].id # id THEN <<s[1]>> \o Retain(Tail(s), id)
         ELSE Retain(Tail(s), id)

RECURSIVE Flatten(_)
\* the concatenation of a list of scripts
Flatten(ss) == IF ss = <<>> THEN <<>> ELSE ss[1] \o Flatten(Tail(ss))

Ids(s) == {s[i].id : i \in 1..Len(s)}

-----------------------------------------------------------------------------
(* StackVariable.                                                          *)

StackVariable(id, size) == [id |-> id, size |-> size]

null == StackVariable(0, 0)

\* Option<T>: Some(x) and None
Some(x) == <<x>>

None == <<>>

-----------------------------------------------------------------------------
(* StackData: stack, altstack, names, redo_log, with_redo_log.             *)

RedoOp(op, var, name, idx, n) ==
    [op |-> op, var |-> var, name |-> name, idx |-> idx, n |-> n]

StackDataNew(with_redo_log) ==
    [stack |-> <<>>, altstack |-> <<>>, names |-> <<>>,
     redo_log |-> <<>>, with_redo_log |-> with_redo_log]

\* mutant of Journal: the entry is pushed whatever with_redo_log is
Journal_Always(d, op) == Append(d.redo_log, op)

\* if self.with_redo_log { self.redo_log.push(op) }
Journal(d, op) ==
    IF d.with_redo_log THEN Append(d.redo_log, op) ELSE d.redo_log

NamesInsert(names, id, name) ==
    [i \in (DOMAIN names) \cup {id} |-> IF i = id THEN name ELSE names[i]]

NamesRemove(names, id) ==
    [i \in (DOMAIN names) \ {id} |-> names[i]]

push_stack(d, var) ==
    [d EXCEPT !.stack = Append(@, var),
              !.redo_log = Journal(d, RedoOp("PushStack", var, <<>>, 0, 0))]

push_altstack(d, var) ==
    [d EXCEPT !.altstack = Append(@, var),
              !.redo_log = Journal(d, RedoOp("PushAltstack", var, <<>>, 0, 0))]

\* panics (unwrap of None) when the stack is empty
pop_stack_ok(d) == Len(d.stack) > 0

pop_stack(d) ==
    [d EXCEPT !.stack = Front(@),
              !.redo_log = Journal(d, RedoOp("PopStack", null, <<>>, 0, 0))]

pop_altstack_ok(d) == Len(d.altstack) > 0

pop_altstack(d) ==
    [d EXCEPT !.altstack = Front(@),
              !.redo_log = Journal(d, RedoOp("PopAltstack", null, <<>>, 0, 0))]

set_name(d, var, name) ==
    [d EXCEPT !.names = NamesInsert(@, var.id, name),
              !.redo_log = Journal(d, RedoOp("SetName", var, name, 0, 0))]

remove_name(d, var) ==
    [d EXCEPT !.names = NamesRemove(@, var.id),
              !.redo_log = Journal(d, RedoOp("RemoveName", var, <<>>, 0, 0))]

remove_var(d, var) ==
    [d EXCEPT !.stack = Retain(@, var.id),
              !.redo_log = Journal(d, RedoOp("RemoveVar", var, <<>>, 0, 0))]

\* self.stack[idx] panics when idx is out of range (idx counts from 0)
increase_size_ok(d, idx) == idx < Len(d.stack)

increase_size(d, idx, next_size) ==
    [d EXCEPT !.stack[idx + 1].size = @ + next_size,
              !.redo_log = Journal(d, RedoOp("IncreaseSize", null, <<>>, idx, next_size))]

\* v.size -= 1 on a u32: a size of 0 overflows, which panics (overflow checks on)
decrease_size_ok(d, var) ==
    \A i \in 1..Len(d.stack) : d.stack[i].id = var.id => d.stack[i].size > 0

decrease_size(d, var) ==
    [d EXCEPT !.stack = [i \in 1..Len(@) |->
                            IF @[i].id = var.id
                            THEN StackVariable(@[i].id, @[i].size - 1)
                            ELSE @[i]],
              !.redo_log = Journal(d, RedoOp("DecreaseSize", var, <<>>, 0, 0))]

\* mutant of ApplyRedo: RemoveVar replayed as a pop of the top variable
ApplyRedo_RemoveVarPops(d, op) ==
    CASE op.op = "PushStack"    -> push_stack(d, op.var)
      [] op.op = "PushAltstack" -> push_altstack(d, op.var)
      [] op.op = "PopStack"     -> pop_stack(d)
      [] op.op = "PopAltstack"  -> pop_altstack(d)
      [] op.op = "SetName"      -> set_name(d, op.var, op.name)
      [] op.op = "RemoveName"   -> remove_name(d, op.var)
      [] op.op = "RemoveVar"    -> pop_stack(d)
      [] op.op = "DecreaseSize" -> decrease_size(d, op.var)
      [] op.op = "IncreaseSize" -> increase_size(d, op.idx, op.n)

\* one arm of the match in new_from_redo_height
ApplyRedo(d, op) ==
    CASE op.op = "PushStack"    -> push_stack(d, op.var)
      [] op.op = "PushAltstack" -> push_altstack(d, op.var)
      [] op.op = "PopStack"     -> pop_stack(d)
      [] op.op = "PopAltstack"  -> pop_altstack(d)
      [] op.op = "SetName"      -> set_name(d, op.var, op.name)
      [] op.op = "RemoveName"   -> remove_name(d, op.var)
      [] op.op = "RemoveVar"    -> remove_var(d, op.var)
      [] op.op = "DecreaseSize" -> decrease_size(d, op.var)
      [] op.op = "IncreaseSize" -> increase_size(d, op.idx, op.n)

RECURSIVE ReplayFrom(_, _, _, _)
\* for i in 0..height { match &self.redo_log[i] ... }
ReplayFrom(log, i, height, acc) ==
    IF i >= height THEN acc
    ELSE ReplayFrom(log, i + 1, height, ApplyRedo(acc, log[i + 1]))

\* self.redo_log[i] panics when height exceeds the length of the log
new_from_redo_height_ok(d, height) == height <= Len(d.redo_log)

new_from_redo_height(d, height) ==
    ReplayFrom(d.redo_log, 0, height, StackDataNew(FALSE))

\* the part of a StackData the debugger shows: main, alt and the names
Model(d) == [stack |-> d.stack, altstack |-> d.altstack, names |-> d.names]

-----------------------------------------------------------------------------
(* Scripts and the fragments of script_util.rs.                            *)

\* a push of the integer n
Push(n) == [op |-> "PUSH", n |-> n]

\* a one-byte opcode
Op(name) == [op |-> name, n |-> 0]

\* mutant of move_from: the index is the offset of the top entry of the variable
move_from_TopIndex(address, size) ==
    Flatten([i \in 1..size |-> <<Push(address), Op("OP_ROLL")>>])

\* size times: { address + size - 1 } OP_ROLL
move_from(address, size) ==
    Flatten([i \in 1..size |-> <<Push(address + size - 1), Op("OP_ROLL")>>])

\* size times: { address + size - 1 } OP_PICK
\* mutant of copy_from: OP_ROLL in place of OP_PICK
copy_from_Rolling(address, size) == move_from(address, size)

copy_from(address, size) ==
    Flatten([i \in 1..size |-> <<Push(address + size - 1), Op("OP_PICK")>>])

\* mutant of drop_count: no OP_DROP for an odd n
drop_count_Pairs(n) == [i \in 1..(n \div 2) |-> Op("OP_2DROP")]

\* n / 2 times OP_2DROP, then OP_DROP if n is odd
drop_count(n) ==
    [i \in 1..(n \div 2) |-> Op("OP_2DROP")]
        \o (IF n % 2 = 1 THEN <<Op("OP_DROP")>> ELSE <<>>)

\* mutant of toaltstack: one OP_TOALTSTACK whatever n is
toaltstack_Once(n) == <<Op("OP_TOALTSTACK")>>

toaltstack(n) == [i \in 1..n |-> Op("OP_TOALTSTACK")]

fromaltstack(n) == [i \in 1..n |-> Op("OP_FROMALTSTACK")]

-----------------------------------------------------------------------------
(* The script executor that debug_script drives: a main stack and an alt   *)
(* stack of integers, both empty at the start; the run stops at the first  *)
(* instruction that fails and keeps the stacks it had.                     *)

ExecInit == [stack |-> <<>>, altstack |-> <<>>, error |-> FALSE]

ExecFail(e) == [e EXCEPT !.error = TRUE]

\* the entry at depth n from the top (0 is the top)
AtDepth(s, n) == s[Len(s) - n]

\* the stack without its entry at depth n
WithoutDepth(s, n) ==
    SubSeq(s, 1, Len(s) - n - 1) \o SubSeq(s, Len(s) - n + 1, Len(s))

\* the stack without its n top entries
PopN(s, n) == SubSeq(s, 1, Len(s) - n)

ExecStep(e, ins) ==
    LET s == e.stack
        d == Len(s)
    IN
    CASE ins.op = "PUSH" -> [e EXCEPT !.stack = Append(s, ins.n)]
      [] ins.op = "OP_TRUE" -> [e EXCEPT !.stack = Append(s, 1)]
      [] ins.op = "OP_NOP" -> e
      [] ins.op = "OP_DEPTH" -> [e EXCEPT !.stack = Append(s, d)]
      [] ins.op = "OP_DROP" ->
            IF d < 1 THEN ExecFail(e) ELSE [e EXCEPT !.stack = PopN(s, 1)]
      [] ins.op = "OP_2DROP" ->
            IF d < 2 THEN ExecFail(e) ELSE [e EXCEPT !.stack = PopN(s, 2)]
      [] ins.op = "OP_DUP" ->
            IF d < 1 THEN ExecFail(e) ELSE [e EXCEPT !.stack = Append(s, s[d])]
      [] ins.op = "OP_2DUP" ->
            IF d < 2 THEN ExecFail(e)
            ELSE [e EXCEPT !.stack = s \o <<s[d - 1], s[d]>>]
      [] ins.op = "OP_3DUP" ->
            IF d < 3 THEN ExecFail(e)
            ELSE [e EXCEPT !.stack = s \o <<s[d - 2], s[d - 1], s[d]>>]
      [] ins.op = "OP_OVER" ->
            IF d < 2 THEN ExecFail(e) ELSE [e EXCEPT !.stack = Append(s, s[d - 1])]
      [] ins.op = "OP_SWAP" ->
            IF d < 2 THEN ExecFail(e)
            ELSE [e EXCEPT !.stack = PopN(s, 2) \o <<s[d], s[d - 1]>>]
      [] ins.op = "OP_NIP" ->
            IF d < 2 THEN ExecFail(e)
            ELSE [e EXCEPT !.stack = PopN(s, 2) \o <<s[d]>>]
      [] ins.op = "OP_TUCK" ->
            IF d < 2 THEN ExecFail(e)
            ELSE [e EXCEPT !.stack = PopN(s, 2) \o <<s[d], s[d - 1], s[d]>>]
      [] ins.op = "OP_ROT" ->
            IF d < 3 THEN ExecFail(e)
            ELSE [e EXCEPT !.stack = PopN(s, 3) \o <<s[d - 1], s[d], s[d - 2]>>]
      [] ins.op = "OP_PICK" ->
            IF d < 2 \/ s[d] < 0 \/ s[d] >= d - 1 THEN ExecFail(e)
            ELSE [e EXCEPT !.stack = Append(PopN(s, 1), AtDepth(PopN(s, 1), s[d]))]
      [] ins.op = "OP_ROLL" ->
            IF d < 2 \/ s[d] < 0 \/ s[d] >= d - 1 THEN ExecFail(e)
            ELSE [e EXCEPT !.stack = Append(WithoutDepth(PopN(s, 1), s[d]),
                                            AtDepth(PopN(s, 1), s[d]))]
      [] ins.op = "OP_TOALTSTACK" ->
            IF d < 1 THEN ExecFail(e)
            ELSE [e EXCEPT !.stack = PopN(s, 1), !.altstack = Append(@, s[d])]
      [] ins.op = "OP_FROMALTSTACK" ->
            IF Len(e.altstack) < 1 THEN ExecFail(e)
            ELSE [e EXCEPT !.stack = Append(s, Last(e.altstack)),
                           !.altstack = Front(@)]
      [] ins.op = "OP_ADD" ->
            IF d < 2 THEN ExecFail(e)
            ELSE [e EXCEPT !.stack = Append(PopN(s, 2), s[d - 1] + s[d])]
      [] ins.op = "OP_1ADD" ->
            IF d < 1 THEN ExecFail(e)
            ELSE [e EXCEPT !.stack = Append(PopN(s, 1), s[d] + 1)]
      [] ins.op = "OP_EQUAL" ->
            IF d < 2 THEN ExecFail(e)
            ELSE [e EXCEPT !.stack =
                     Append(PopN(s, 2), IF s[d - 1] = s[d] THEN 1 ELSE 0)]
      [] ins.op = "OP_EQUALVERIFY" ->
            IF d < 2 THEN ExecFail(e)
            ELSE IF s[d - 1] # s[d]
                 THEN [e EXCEPT !.stack = Append(PopN(s, 2), 0), !.error = TRUE]
                 ELSE [e EXCEPT !.stack = PopN(s, 2)]

RECURSIVE ExecFrom(_, _)
\* loop { if exec.exec_next().is_err() { break; } }
ExecFrom(e, scr) ==
    IF scr = <<>> \/ e.error THEN e
    ELSE ExecFrom(ExecStep(e, scr[1]), Tail(scr))

\* debug_script(script): the run of a whole script from empty stacks
debug_script(scr) == ExecFrom(ExecInit, scr)

RECURSIVE LastReached(_, _, _)
\* last_opcode: the instruction at the head of the remaining script before
\* the last exec_next that was attempted; None for the empty script
LastReached(e, scr, reached) ==
    IF scr = <<>> \/ e.error THEN reached
    ELSE LastReached(ExecStep(e, scr[1]), Tail(scr), Some(scr[1]))

\* result().success of the executor in the Tapscript context: the run came
\* to the end of the script with exactly one entry on main, and it is true
ExecSuccess(e) == ~e.error /\ Len(e.stack) = 1 /\ e.stack[1] # 0

\* the bytes of a stack entry holding the number n >= 0: none for 0, one up
\* to 127, then little-endian with room for the sign bit
Bytes(n) ==
    IF n = 0 THEN <<>>
    ELSE IF n < 128 THEN <<n>>
    ELSE IF n < 32768 THEN <<n % 256, n \div 256>>
    ELSE <<n % 256, (n \div 256) % 256, n \div 65536>>

HexDigits ==
    <<"0", "1", "2", "3", "4", "5", "6", "7", "8", "9", "a", "b", "c", "d", "e", "f">>

\* format!("{:x}", byte): no leading zero
HexByte(b) ==
    IF b < 16 THEN <<HexDigits[b + 1]>>
    ELSE <<HexDigits[(b \div 16) + 1], HexDigits[(b % 16) + 1]>>

\* convert_stack: each entry as the hex of its bytes, the empty entry as 0
convert_stack(stack) ==
    [f \in 1..Len(stack) |->
        LET v == IF Bytes(stack[f]) = <<>> THEN <<0>> ELSE Bytes(stack[f])
        IN  Flatten([b \in 1..Len(v) |-> HexByte(v[b])])]

\* stack.iter().rev() and real.reverse()
Reversed(s) == [k \in 1..Len(s) |-> s[Len(s) - k + 1]]

RECURSIVE ShowFrom(_, _, _)
\* the for loop of show_stacks: a variable takes var.size entries off the
\* front of real when real is not empty and has that many, and nothing
\* otherwise; a line is kept as its four fields
ShowFrom(d, iter, real) ==
    IF iter = <<>> THEN <<>>
    ELSE LET v     == iter[1]
             takes == real # <<>> /\ Len(real) >= v.size
             line  == [id |-> v.id, size |-> v.size,
                       name |-> IF v.id \in DOMAIN d.names THEN d.names[v.id]
                                ELSE <<"unknown">>,
                       real_sub |-> IF takes THEN Flatten(SubSeq(real, 1, v.size))
                                    ELSE <<>>]
         IN  <<line>> \o ShowFrom(d, Tail(iter),
                                  IF takes THEN SubSeq(real, v.size + 1, Len(real))
                                  ELSE real)

\* mutant of show_stacks: real is not reversed for the alt stack
show_stacks_RealAsIs(d, stack, real, reverse) ==
    ShowFrom(d, IF reverse THEN Reversed(stack) ELSE stack, real)

show_stacks(d, stack, real, reverse) ==
    ShowFrom(d, IF reverse THEN Reversed(stack) ELSE stack,
             IF reverse THEN Reversed(real) ELSE real)

StepResult(error, error_msg, success, last_opcode, stack, altstack) ==
    [error |-> error, error_msg |-> error_msg, success |-> success,
     last_opcode |-> last_opcode, stack |-> stack, altstack |-> altstack]

\* stack.history[step_number] panics when step_number is not an index
execute_step_ok(t, step_number) ==
    /\ step_number >= 0
    /\ step_number < Len(t.history)
    /\ new_from_redo_height_ok(t.data, t.history[step_number + 1])

\* mutant of execute_step: success whatever the step is
execute_step_AnyStep(t, step_number) ==
    LET scr       == Flatten(SubSeq(t.script, 1,
                                    IF step_number + 1 < Len(t.script)
                                    THEN step_number + 1 ELSE Len(t.script)))
        step_data == new_from_redo_height(t.data, t.history[step_number + 1])
        result    == debug_script(scr)
    IN  StepResult(result.error,
                   IF result.error THEN <<"Some(", "error", ")">> ELSE <<"None">>,
                   ExecSuccess(result),
                   LastReached(ExecInit, scr, None),
                   show_stacks(step_data, step_data.stack,
                               convert_stack(result.stack), FALSE),
                   show_stacks(step_data, step_data.altstack,
                               convert_stack(result.altstack), TRUE))

execute_step(t, step_number) ==
    LET scr       == Flatten(SubSeq(t.script, 1,
                                    IF step_number + 1 < Len(t.script)
                                    THEN step_number + 1 ELSE Len(t.script)))
        step_data == new_from_redo_height(t.data, t.history[step_number + 1])
        result    == debug_script(scr)
        success   == step_number = Len(t.script) - 1 /\ ExecSuccess(result)
    IN  StepResult(result.error,
                   IF result.error THEN <<"Some(", "error", ")">> ELSE <<"None">>,
                   success,
                   LastReached(ExecInit, scr, None),
                   show_stacks(step_data, step_data.stack,
                               convert_stack(result.stack), FALSE),
                   show_stacks(step_data, step_data.altstack,
                               convert_stack(result.altstack), TRUE))

-----------------------------------------------------------------------------
(* The peephole optimizer of optimizer.rs.  The instruction vector is      *)
(* indexed from 0 as in the code.  The loop state st holds the vector ins, *)
(* the index i, the length len the loop tracks, and out: "run" while the   *)
(* loop goes on, "break" after a break, "panic" after a panic.  The field  *)
(* org is a history of the rewriting: for each instruction of ins, the     *)
(* index of the input instruction whose slot it occupies.                  *)

\* instructions[i]
At(s, i) == s[i + 1]

\* instructions[i] = x
SetAt(s, i, x) == [s EXCEPT ![i + 1] = x]

\* instructions.drain(a..b)
drain(s, a, b) == SubSeq(s, 1, a) \o SubSeq(s, b + 1, Len(s))

\* usize::MAX, the value 0 - 1 wraps to; it stands for 2^64 - 1 and is only
\* ever compared with a length
usize_MAX == 2147483647

\* to_vec: the instructions of the script; OP_TRUE is the byte of OP_1
to_vec(scr) ==
    [k \in 1..Len(scr) |-> IF scr[k] = Op("OP_TRUE") THEN Push(1) ELSE scr[k]]

\* from_vec: the script of the instructions
from_vec(instructions) == instructions

\* Some(0) for OP_0 or an empty push, Some(v - 0x50) for OP_1..OP_16
get_digit(instruction) ==
    IF instruction.op = "PUSH" /\ instruction.n \in 0..16
    THEN Some(instruction.n) ELSE None

is_opcode(instruction, opcode) == instruction = Op(opcode)

RECURSIVE count_ahead_from(_, _, _, _)
\* the while loop of count_ahead from j with count equal successors so far
count_ahead_from(instructions, i, j, count) ==
    IF j < Len(instructions) /\ At(instructions, i) = At(instructions, j)
    THEN count_ahead_from(instructions, i, j + 1, count + 1)
    ELSE count

\* mutant of count_ahead: the instruction at i is counted too
count_ahead_Run(instructions, i) == count_ahead_from(instructions, i, i + 1, 1)

count_ahead(instructions, i) == count_ahead_from(instructions, i, i + 1, 0)

\* the match of replace: the dup opcodes for count equal successors
replace_ops(count) ==
    CASE count = 3 -> <<1, 2>>
      [] count = 4 -> <<1, 1, 2>>
      [] count = 5 -> <<1, 2, 2>>
      [] count = 6 -> <<1, 2, 3>>
      [] count = 7 -> <<1, 2, 2, 2>>
      [] count = 8 -> <<1, 2, 2, 3>>
      [] count = 9 -> <<1, 2, 3, 3>>
      [] count = 10 -> <<1, 2, 2, 2, 3>>
      [] count = 11 -> <<1, 2, 2, 3, 3>>
      [] count = 12 -> <<1, 2, 3, 3, 3>>
      [] count = 13 -> <<1, 2, 2, 2, 3, 3>>
      [] count = 14 -> <<1, 2, 2, 3, 3, 3>>
      [] count = 15 -> <<1, 2, 3, 3, 3, 3>>
      [] OTHER -> <<>>

\* mutant of replace_op: OP_DUP whatever the table says
replace_op_Dup(op) == Op("OP_DUP")

replace_op(op) ==
    CASE op = 1 -> Op("OP_DUP")
      [] op = 2 -> Op("OP_2DUP")
      [] op = 3 -> Op("OP_3DUP")

\* replace(instructions, i, count): (new_size, drain); (0, 0) off the table
replace_ret(count) ==
    IF replace_ops(count) = <<>> THEN <<0, 0>>
    ELSE <<Len(replace_ops(count)), count - Len(replace_ops(count))>>

\* the vector replace leaves
replace(instructions, i, count) ==
    LET ops == replace_ops(count)
        new_size == replace_ret(count)[1]
        written == [k \in 1..Len(instructions) |->
                       IF k - 1 \in (i + 1)..(i + new_size)
                       THEN replace_op(ops[k - 1 - i]) ELSE instructions[k]]
    IN IF ops = <<>> THEN instructions
       ELSE drain(written, i + new_size + 1,
                  i + new_size + 1 + replace_ret(count)[2])

\* if i >= len { break; }
BreakCheck(st) ==
    IF st.out = "run" /\ st.i >= st.len THEN [st EXCEPT !.out = "break"] ELSE st

\* OP_TOALTSTACK followed by OP_FROMALTSTACK: both drained, len -= 2, i -= 1;
\* at i = 0 the subtraction panics when the build checks overflow and wraps
\* when it does not
StepAlt(st, overflow) ==
    IF /\ st.out = "run"
       /\ is_opcode(At(st.ins, st.i), "OP_TOALTSTACK")
       /\ st.i + 1 < st.len
       /\ is_opcode(At(st.ins, st.i + 1), "OP_FROMALTSTACK")
    THEN LET drained == [st EXCEPT !.ins = drain(@, st.i, st.i + 2),
                                   !.org = drain(@, st.i, st.i + 2),
                                   !.len = @ - 2]
         IN IF st.i > 0 THEN [drained EXCEPT !.i = @ - 1]
            ELSE IF overflow THEN [drained EXCEPT !.out = "panic"]
            ELSE [drained EXCEPT !.i = usize_MAX]
    ELSE st

\* mutant of Fuse: the pair becomes OP_DUP whatever the rule says
Fuse_Dup(st, op) ==
    [st EXCEPT !.ins = drain(SetAt(@, st.i - 1, Op("OP_DUP")), st.i, st.i + 1),
               !.org = drain(@, st.i, st.i + 1),
               !.len = @ - 1,
               !.i = @ - 1]

\* instructions[i-1] = op; instructions.drain(i..i+1); len -= 1; i -= 1
Fuse(st, op) ==
    [st EXCEPT !.ins = drain(SetAt(@, st.i - 1, Op(op)), st.i, st.i + 1),
               !.org = drain(@, st.i, st.i + 1),
               !.len = @ - 1,
               !.i = @ - 1]

\* mutant of StepPick: OP_OVER for the digit 0 as well
StepPick_Over(st) ==
    IF st.out = "run" /\ is_opcode(At(st.ins, st.i), "OP_PICK")
    THEN IF st.i = 0 THEN [st EXCEPT !.out = "panic"]
         ELSE IF get_digit(At(st.ins, st.i - 1)) \in {Some(0), Some(1)} THEN Fuse(st, "OP_OVER")
         ELSE st
    ELSE st

\* OP_PICK after the digit 0 or 1; instructions[i-1] at i = 0 panics in
\* every build (the subtraction, or the index it wraps to)
StepPick(st) ==
    IF st.out = "run" /\ is_opcode(At(st.ins, st.i), "OP_PICK")
    THEN IF st.i = 0 THEN [st EXCEPT !.out = "panic"]
         ELSE LET digit == get_digit(At(st.ins, st.i - 1))
              IN IF digit = Some(0) THEN Fuse(st, "OP_DUP")
                 ELSE IF digit = Some(1) THEN Fuse(st, "OP_OVER")
                 ELSE st
    ELSE st

\* OP_ROLL after the digit 0, 1 or 2
StepRoll(st) ==
    IF st.out = "run" /\ is_opcode(At(st.ins, st.i), "OP_ROLL")
    THEN IF st.i = 0 THEN [st EXCEPT !.out = "panic"]
         ELSE LET digit == get_digit(At(st.ins, st.i - 1))
              IN IF digit = Some(0)
                 THEN [st EXCEPT !.ins = drain(@, st.i - 1, st.i + 1),
                                 !.org = drain(@, st.i - 1, st.i + 1),
                                 !.len = @ - 2,
                                 !.i = @ - 1]
                 ELSE IF digit = Some(1) THEN Fuse(st, "OP_SWAP")
                 ELSE IF digit = Some(2) THEN Fuse(st, "OP_ROT")
                 ELSE st
    ELSE st

\* mutant of StepDigit: i += 1 only after a digit
StepDigit_Stays(st) ==
    IF st.out # "run" THEN st
    ELSE IF get_digit(At(st.ins, st.i)) # None
    THEN LET count == count_ahead(st.ins, st.i)
             ret == replace_ret(count)
         IN [st EXCEPT !.ins = replace(@, st.i, count),
                       !.org = drain(@, st.i + ret[1] + 1, st.i + ret[1] + 1 + ret[2]),
                       !.len = @ - ret[2],
                       !.i = @ + ret[1] + 1]
    ELSE st

\* a digit: the run it starts is replaced; then i += 1
StepDigit(st) ==
    IF st.out # "run" THEN st
    ELSE IF get_digit(At(st.ins, st.i)) # None
    THEN LET count == count_ahead(st.ins, st.i)
             ret == replace_ret(count)
         IN [st EXCEPT !.ins = replace(@, st.i, count),
                       !.org = drain(@, st.i + ret[1] + 1, st.i + ret[1] + 1 + ret[2]),
                       !.len = @ - ret[2],
                       !.i = @ + ret[1] + 1]
    ELSE [st EXCEPT !.i = @ + 1]

\* one turn of the while loop of optimize
OptimizeTurn(st, overflow) ==
    CHOOSE next \in
        {StepDigit(BreakCheck(rolled)) :
            rolled \in {StepRoll(BreakCheck(picked)) :
                picked \in {StepPick(BreakCheck(paired)) :
                    paired \in {StepAlt(st, overflow)}}}} : TRUE

\* let mut instructions = to_vec(&script); let mut len = instructions.len();
\* let mut i = 0
LoopStart(scr) ==
    [ins |-> to_vec(scr), org |-> [k \in 1..Len(scr) |-> k - 1],
     i |-> 0, len |-> Len(scr), out |-> "run"]

RECURSIVE OptimizeLoop(_, _)
\* while i < len { ... }
OptimizeLoop(st, overflow) ==
    IF st.out = "run" /\ st.i < st.len
    THEN OptimizeLoop(OptimizeTurn(st, overflow), overflow)
    ELSE st

\* the loop of optimize(script) run to its end
optimize_run(scr, overflow) == OptimizeLoop(LoopStart(scr), overflow)

\* optimize(script) returns
optimize_ok(scr, overflow) == optimize_run(scr, overflow).out # "panic"

\* the script optimize(script) returns
optimize(scr, overflow) == from_vec(optimize_run(scr, overflow).ins)

-----------------------------------------------------------------------------
(* StackTracker.  A tracker value t is the record of the struct's fields;  *)
(* each verb is an operator from a tracker to the tracker after the call,  *)
(* with <verb>_ok the condition under which the call does not panic and    *)
(* <verb>_ret the value it returns.                                        *)

Max2(a, b) == IF a >= b THEN a ELSE b

Min2(a, b) == IF a <= b THEN a ELSE b

StackTrackerNew ==
    [data |-> StackDataNew(TRUE), script |-> <<>>, history |-> <<>>,
     counter |-> 0, max_stack_size |-> 0, with_history |-> TRUE,
     breakpoint |-> <<>>]

\* mutant of push: max_stack_size records the size of the pushed variable
push_MaxOfVar(t, var) ==
    [t EXCEPT !.data = push_stack(t.data, var),
              !.max_stack_size = Max2(@, var.size)]

push(t, var) ==
    LET d == push_stack(t.data, var)
    IN  [t EXCEPT !.data = d,
                  !.max_stack_size = Max2(@, SumSize(d.stack))]

\* mutant of push_script: no history entry for an empty fragment
push_script_SkipsEmpty(t, scr) ==
    [t EXCEPT !.script = Append(@, scr),
              !.history = IF t.with_history /\ scr # <<>>
                          THEN Append(@, Len(t.data.redo_log))
                          ELSE @]

push_script(t, scr) ==
    [t EXCEPT !.script = Append(@, scr),
              !.history = IF t.with_history
                          THEN Append(@, Len(t.data.redo_log))
                          ELSE @]

\* mutant of next_counter: the counter is not incremented
next_counter_Stuck(t) == t

\* self.counter += 1; self.counter
next_counter(t) == [t EXCEPT !.counter = @ + 1]

define_ret(t, size) == StackVariable(t.counter + 1, size)

\* mutant of define: define pushes an empty fragment
define_Emitting(t, size, name) ==
    LET var == define_ret(t, size)
        t1  == push(next_counter(t), var)
    IN  push_script([t1 EXCEPT !.data = set_name(@, var, name)], <<>>)

define(t, size, name) ==
    LET var == define_ret(t, size)
        t1  == push(next_counter(t), var)
    IN  [t1 EXCEPT !.data = set_name(@, var, name)]

\* mutant of var: the fragment is pushed before the model is changed
var_ScriptFirst(t, size, scr, name) ==
    LET v  == StackVariable(t.counter + 1, size)
        t0 == push_script(t, scr)
        t1 == push(next_counter(t0), v)
    IN  [t1 EXCEPT !.data = set_name(@, v, name)]

var(t, size, scr, name) ==
    LET v  == StackVariable(t.counter + 1, size)
        t1 == push(next_counter(t), v)
        t2 == [t1 EXCEPT !.data = set_name(@, v, name)]
    IN  push_script(t2, scr)

rename(t, v, name) == [t EXCEPT !.data = set_name(@, v, name)]

\* assert!(self.data.stack.last().unwrap().id == var.id)
drop_ok(t, v) == Len(t.data.stack) > 0 /\ Last(t.data.stack).id = v.id

drop(t, v) ==
    LET t1 == [t EXCEPT !.data = remove_name(pop_stack(@), v)]
    IN  push_script(t1, drop_count(v.size))

to_altstack_ok(t) == pop_stack_ok(t.data)

to_altstack_ret(t) == Last(t.data.stack)

to_altstack(t) ==
    LET v  == Last(t.data.stack)
        t1 == [t EXCEPT !.data = push_altstack(pop_stack(@), v)]
    IN  push_script(t1, toaltstack(v.size))

from_altstack_ok(t) == pop_altstack_ok(t.data)

from_altstack_ret(t) == Last(t.data.altstack)

from_altstack(t) ==
    LET v  == Last(t.data.altstack)
        t1 == push([t EXCEPT !.data = pop_altstack(@)], v)
    IN  push_script(t1, fromaltstack(v.size))

RECURSIVE OffsetIn(_, _)
\* for v in stack.iter().rev() { if var.id == v.id { return count } count += v.size }
OffsetIn(s, id) ==
    IF Last(s).id = id THEN 0
    ELSE Last(s).size + OffsetIn(Front(s), id)

\* panic!("The var {:?} is not part of the stack")
get_offset_ok(t, v) == v.id \in Ids(t.data.stack)

get_offset(t, v) == OffsetIn(t.data.stack, v.id)

\* self.data.stack[len - 1 - depth] panics when depth is out of range
get_var_from_stack_ok(t, depth) == depth < Len(t.data.stack)

get_var_from_stack(t, depth) == t.data.stack[Len(t.data.stack) - depth]

\* self.data.names[&var.id] panics when the id has no name
get_var_name_ok(t, v) == v.id \in DOMAIN t.data.names

get_var_name(t, v) == t.data.names[v.id]

move_var_ok(t, v) == get_offset_ok(t, v)

\* mutant of move_var: no early return when the offset is 0
move_var_AlwaysMoves(t, v) ==
    LET offset == get_offset(t, v)
        t1 == [t EXCEPT !.data = remove_var(@, v)]
        t2 == push(t1, v)
    IN  push_script(t2, move_from(offset, v.size))

move_var(t, v) ==
    LET offset == get_offset(t, v)
    IN  IF offset = 0 THEN t
        ELSE LET t1 == [t EXCEPT !.data = remove_var(@, v)]
                 t2 == push(t1, v)
             IN  push_script(t2, move_from(offset, v.size))

copy_var_ok(t, v) == get_offset_ok(t, v) /\ get_var_name_ok(t, v)

copy_var_ret(t, v) == StackVariable(t.counter + 1, v.size)

copy_var(t, v) ==
    LET offset  == get_offset(t, v)
        new_var == StackVariable(t.counter + 1, v.size)
        t1 == push(next_counter(t), new_var)
        t2 == rename(t1, new_var,
                     <<"copy(">> \o t1.data.names[v.id] \o <<")">>)
    IN  push_script(t2, copy_from(offset, v.size))

\* mutant of copy_var_sub_n: n counts down from the top entry of the variable
copy_var_sub_n_FromTop(t, v, n) ==
    LET offset   == get_offset(t, v)
        offset_n == offset + n
        new_var  == StackVariable(t.counter + 1, 1)
        t1 == push(next_counter(t), new_var)
    IN  push_script(t1, copy_from(offset_n, 1))

\* offset + var.size - 1 - n on u32 panics when it goes below 0
copy_var_sub_n_ok(t, v, n) ==
    get_offset_ok(t, v) /\ get_offset(t, v) + v.size - 1 - n >= 0

copy_var_sub_n_ret(t) == StackVariable(t.counter + 1, 1)

copy_var_sub_n(t, v, n) ==
    LET offset   == get_offset(t, v)
        offset_n == offset + v.size - 1 - n
        new_var  == StackVariable(t.counter + 1, 1)
        t1 == push(next_counter(t), new_var)
    IN  push_script(t1, copy_from(offset_n, 1))

\* assert!(var.size > n), get_offset, and the u32 decrement in decrease_size
move_var_sub_n_ok(t, v, n) ==
    v.size > n /\ get_offset_ok(t, v) /\ decrease_size_ok(t.data, v)

\* what the call leaves in the caller's &mut StackVariable
move_var_sub_n_var(v) == StackVariable(v.id, v.size - 1)

move_var_sub_n_ret(t) == StackVariable(t.counter + 1, 1)

\* mutant of move_var_sub_n: the size of the variable is left as it was
move_var_sub_n_KeepsSize(t, v, n) ==
    LET offset   == get_offset(t, v)
        offset_n == offset + v.size - 1 - n
        new_var  == StackVariable(t.counter + 1, 1)
        t3 == push(next_counter(t), new_var)
    IN  push_script(t3, move_from(offset_n, 1))

move_var_sub_n(t, v, n) ==
    LET offset   == get_offset(t, v)
        offset_n == offset + v.size - 1 - n
        v1 == move_var_sub_n_var(v)
        t1 == [t EXCEPT !.data = decrease_size(@, v1)]
        t2 == IF v1.size = 0
              THEN [t1 EXCEPT !.data = remove_var(@, v1)]
              ELSE t1
        new_var == StackVariable(t.counter + 1, 1)
        t3 == push(next_counter(t2), new_var)
    IN  push_script(t3, move_from(offset_n, 1))

\* the index i of the loop of join: the first position holding var1.id (from 1),
\* or 0 when the loop ends without finding it
JoinIndex(s, id) ==
    IF id \in Ids(s)
    THEN CHOOSE i \in 1..Len(s) :
            s[i].id = id /\ \A j \in 1..(i - 1) : s[j].id # id
    ELSE 0

\* assert!(i + 1 < len, "The variable {:?} is the last one on the stack")
join_ok(t, v) ==
    LET i == JoinIndex(t.data.stack, v.id)
    IN  i = 0 \/ i < Len(t.data.stack)

\* what the call leaves in the caller's &mut StackVariable
join_var(t, v) ==
    LET i == JoinIndex(t.data.stack, v.id)
    IN  IF i = 0 THEN v
        ELSE StackVariable(v.id, v.size + t.data.stack[i + 1].size)

\* mutant of join: the absorbed variable is not removed
join_KeepsAbsorbed(t, v) ==
    LET i == JoinIndex(t.data.stack, v.id)
    IN  IF i = 0 THEN t
        ELSE [t EXCEPT !.data =
                 increase_size(t.data, i - 1, t.data.stack[i + 1].size)]

join(t, v) ==
    LET i == JoinIndex(t.data.stack, v.id)
    IN  IF i = 0 THEN t
        ELSE LET next_size == t.data.stack[i + 1].size
                 d1 == increase_size(t.data, i - 1, next_size)
                 d2 == remove_var(d1, d1.stack[i + 1])
             IN  [t EXCEPT !.data = d2]

RECURSIVE ExplodeFrom(_, _, _)
\* for i in 0..var.size { new_var; rename(new_var, "{}[{}]"); push(new_var) }
ExplodeFrom(t, v, i) ==
    IF i >= v.size THEN t
    ELSE LET new_var == StackVariable(t.counter + 1, 1)
             t1 == next_counter(t)
             t2 == rename(t1, new_var,
                          get_var_name(t1, v) \o <<"[", ToString(i), "]">>)
         IN  ExplodeFrom(push(t2, new_var), v, i + 1)

\* the assert on the last variable, and get_var_name inside the loop
explode_ok(t, v) ==
    /\ Len(t.data.stack) > 0
    /\ Last(t.data.stack).id = v.id
    /\ (v.size > 0 => get_var_name_ok(t, v))

explode_ret(t, v) == [i \in 1..v.size |-> StackVariable(t.counter + i, 1)]

\* mutant of explode: the exploded variable is not removed
explode_KeepsVar(t, v) == ExplodeFrom(t, v, 0)

explode(t, v) == ExplodeFrom([t EXCEPT !.data = remove_var(@, v)], v, 0)

RECURSIVE PopCount(_, _)
\* for _ in 0..consumes { self.data.pop_stack(); }
PopCount(d, n) == IF n = 0 THEN d ELSE PopCount(pop_stack(d), n - 1)

RECURSIVE DefineAll(_, _)
\* for (size, name) in output_vars { ret.push(self.define(size, &name)); }
DefineAll(t, outs) ==
    IF outs = <<>> THEN t
    ELSE DefineAll(define(t, outs[1].size, outs[1].name), Tail(outs))

RECURSIVE PushAltCount(_, _)
\* for _ in 0..to_altstack { push_altstack(StackVariable::new(next_counter(), 1)) }
PushAltCount(t, n) ==
    IF n = 0 THEN t
    ELSE LET t1 == next_counter(t)
         IN  PushAltCount(
                [t1 EXCEPT !.data = push_altstack(@, StackVariable(t1.counter, 1))],
                n - 1)

custom_ex_ok(t, consumes) == consumes <= Len(t.data.stack)

custom_ex_ret(t, output_vars) ==
    [i \in 1..Len(output_vars) |->
        StackVariable(t.counter + i, output_vars[i].size)]

custom_ex(t, scr, consumes, output_vars, to_alt) ==
    LET t1 == [t EXCEPT !.data = PopCount(@, consumes)]
    IN  IF Len(output_vars) > 0
        THEN push_script(DefineAll(t1, output_vars), scr)
        ELSE push_script(PushAltCount(t1, to_alt), scr)

custom(t, scr, consumes, output, to_alt, name) ==
    custom_ex(t, scr, consumes,
              IF output THEN <<[size |-> 1, name |-> name]>> ELSE <<>>,
              to_alt)

\* fn op(op, consumes, output, name)
op(t, opcode, consumes, output, name) ==
    custom(t, <<Op(opcode)>>, consumes, output, 0, name)

\* for _ in 0..count { self.to_altstack() } panics when main runs out
to_altstack_count_ok(t, count) == count <= Len(t.data.stack)

\* the variables returned, in the order they were moved
to_altstack_count_ret(t, count) ==
    [i \in 1..count |-> t.data.stack[Len(t.data.stack) - i + 1]]

RECURSIVE to_altstack_count(_, _)
to_altstack_count(t, count) ==
    IF count = 0 THEN t ELSE to_altstack_count(to_altstack(t), count - 1)

\* for _ in 0..count { self.from_altstack() } panics when alt runs out
from_altstack_count_ok(t, count) == count <= Len(t.data.altstack)

from_altstack_count_ret(t, count) ==
    [i \in 1..count |-> t.data.altstack[Len(t.data.altstack) - i + 1]]

RECURSIVE from_altstack_count(_, _)
from_altstack_count(t, count) ==
    IF count = 0 THEN t ELSE from_altstack_count(from_altstack(t), count - 1)

RECURSIVE join_count_ret(_, _, _)
RECURSIVE join_count(_, _, _)
\* *var after count turns of the loop: each join adds the absorbed size to it
join_count_ret(t, v, count) ==
    IF count = 0 THEN v
    ELSE join_var(join_count(t, v, count - 1), join_count_ret(t, v, count - 1))

\* for _ in 0..count { self.join(var) }
join_count(t, v, count) ==
    IF count = 0 THEN t
    ELSE join(join_count(t, v, count - 1), join_count_ret(t, v, count - 1))

RECURSIVE join_count_ok(_, _, _)
\* every join of the loop passes its assert
join_count_ok(t, v, count) ==
    IF count = 0 THEN TRUE
    ELSE /\ join_count_ok(t, v, count - 1)
         /\ join_ok(join_count(t, v, count - 1), join_count_ret(t, v, count - 1))

\* assert!(count > 1), the pops of from_altstack_count, the asserts of join
from_altstack_joined_ok(t, count) ==
    /\ count > 1
    /\ from_altstack_count_ok(t, count)
    /\ join_count_ok(from_altstack_count(t, count),
                     from_altstack_count_ret(t, count)[1], count - 1)

\* tmp[0] after join_count
from_altstack_joined_ret(t, count) ==
    join_count_ret(from_altstack_count(t, count),
                   from_altstack_count_ret(t, count)[1], count - 1)

\* mutant of from_altstack_joined: the joined variable is not renamed
from_altstack_joined_Unnamed(t, count, name) ==
    LET t1   == from_altstack_count(t, count)
        tmp0 == from_altstack_count_ret(t, count)[1]
    IN  join_count(t1, tmp0, count - 1)

from_altstack_joined(t, count, name) ==
    LET t1   == from_altstack_count(t, count)
        tmp0 == from_altstack_count_ret(t, count)[1]
        t2   == join_count(t1, tmp0, count - 1)
    IN  rename(t2, join_count_ret(t1, tmp0, count - 1), name)

\* how a call that runs into panic!() ends
panic == "panic"

\* mutant of op_ifdup: the opcode is emitted like any other
op_ifdup_Emitting(t) == op(t, "OP_IFDUP", 1, TRUE, <<"OP_IFDUP()">>)

\* panic!("OP_IFDUP not implemented ..."): the tracker as the panic leaves it
op_ifdup(t) == t

\* panic!("OP_ROLL not implemented ..."): the tracker as the panic leaves it
op_roll(t) == t

set_breakpoint(t, name) ==
    LET t1 == push_script(t, <<>>)
    IN  [t1 EXCEPT !.breakpoint =
            Append(@, [pos |-> Len(t1.script) - 1, name |-> name])]

\* debug(): an empty fragment, then the step is printed
debug(t) == push_script(t, <<>>)

RECURSIVE get_next_breakpoint_from(_, _, _)
\* for (pos, name) in self.breakpoint.iter() { if *pos > from { return Some } }
get_next_breakpoint_from(t, from, k) ==
    IF k > Len(t.breakpoint) THEN None
    ELSE IF t.breakpoint[k].pos > from
    THEN Some([pos |-> Min2(t.breakpoint[k].pos, Len(t.script) - 1),
               name |-> t.breakpoint[k].name])
    ELSE get_next_breakpoint_from(t, from, k + 1)

\* mutant of get_next_breakpoint: the last breakpoint recorded, if it is after from
get_next_breakpoint_Last(t, from) ==
    IF t.breakpoint # <<>> /\ Last(t.breakpoint).pos > from
    THEN Some(Last(t.breakpoint)) ELSE None

get_next_breakpoint(t, from) == get_next_breakpoint_from(t, from, 1)

RECURSIVE get_prev_breakpoint_from(_, _, _, _)
\* if *pos < from { ret = Some } if *pos > from { break }
get_prev_breakpoint_from(t, from, k, ret) ==
    IF k > Len(t.breakpoint) THEN ret
    ELSE LET bp == t.breakpoint[k]
             ret1 == IF bp.pos < from THEN Some(bp) ELSE ret
         IN  IF bp.pos > from THEN ret1
             ELSE get_prev_breakpoint_from(t, from, k + 1, ret1)

get_prev_breakpoint(t, from) == get_prev_breakpoint_from(t, from, 1, None)

op_drop_ok(t) == custom_ex_ok(t, 1)

op_drop(t) == op(t, "OP_DROP", 1, FALSE, <<"OP_DROP">>)

\* the pops of op_drop on the clones and of custom on self
open_if_ok(t) == custom_ex_ok(t, 1)

\* (if_true, if_false): two clones of self, each after op_drop()
open_if_ret(t) == <<op_drop(t), op_drop(t)>>

open_if(t) == custom(t, <<Op("OP_IF")>>, 1, FALSE, 0, <<"open_if">>)

\* script.iter().skip(n)
skip(scr, n) == SubSeq(scr, n + 1, Len(scr))

\* the script! of end_if
end_if_script(t, if_true, if_false) ==
    Flatten(skip(if_true.script, Len(t.script))) \o <<Op("OP_ELSE")>>
        \o Flatten(skip(if_false.script, Len(t.script))) \o <<Op("OP_ENDIF")>>

end_if_ok(t, consumes) == custom_ex_ok(t, consumes)

end_if_ret(t, consumes, output_vars) ==
    custom_ex_ret([t EXCEPT !.data = PopCount(@, consumes)], output_vars)

end_if(t, if_true, if_false, consumes, output_vars, to_alt) ==
    custom_ex(t, end_if_script(t, if_true, if_false), consumes, output_vars, to_alt)

op_equalverify(t) == op(t, "OP_EQUALVERIFY", 2, FALSE, <<"OP_EQUALVERIFY()">>)

\* the first part of a turn of the loop of equals: with dont_move the top
\* entry of var2 becomes a variable of its own, in place
EqualsExtract(st, dont_move) ==
    IF ~st.ok \/ ~dont_move THEN st
    ELSE IF ~decrease_size_ok(st.t.data, st.var2) \/ st.var2.size = 0
    THEN [st EXCEPT !.ok = FALSE]
    ELSE LET var2 == StackVariable(st.var2.id, st.var2.size - 1)
             d1 == decrease_size(st.t.data, st.var2)
             d2 == IF var2.size = 0 THEN remove_var(d1, var2) ELSE d1
         IN  [st EXCEPT !.t = define([st.t EXCEPT !.data = d2], 1, <<"extracted">>),
                        !.var2 = var2]

\* the second part: the entry of var1 is moved or copied to the top
EqualsFirst(st, consume_1, i) ==
    IF ~st.ok THEN st
    ELSE IF consume_1
    THEN IF st.var1.size = 0 \/ ~move_var_sub_n_ok(st.t, st.var1, st.var1.size - 1)
         THEN [st EXCEPT !.ok = FALSE]
         ELSE [st EXCEPT !.t = move_var_sub_n(st.t, st.var1, st.var1.size - 1),
                         !.var1 = move_var_sub_n_var(st.var1)]
    ELSE IF ~copy_var_sub_n_ok(st.t, st.var1, st.var1.size - i - 1)
         THEN [st EXCEPT !.ok = FALSE]
         ELSE [st EXCEPT !.t = copy_var_sub_n(st.t, st.var1, st.var1.size - i - 1)]

\* the third part: the entry of var2, unless it was left in place
EqualsSecond(st, consume_2, dont_move, i) ==
    IF ~st.ok THEN st
    ELSE IF consume_2
    THEN IF dont_move THEN st
         ELSE IF st.var2.size = 0 \/ ~move_var_sub_n_ok(st.t, st.var2, st.var2.size - 1)
         THEN [st EXCEPT !.ok = FALSE]
         ELSE [st EXCEPT !.t = move_var_sub_n(st.t, st.var2, st.var2.size - 1),
                         !.var2 = move_var_sub_n_var(st.var2)]
    ELSE IF st.var2.size < i + 1 \/ ~copy_var_sub_n_ok(st.t, st.var2, st.var2.size - i - 1)
         THEN [st EXCEPT !.ok = FALSE]
         ELSE [st EXCEPT !.t = copy_var_sub_n(st.t, st.var2, st.var2.size - i - 1)]

\* the last part: op_equalverify()
EqualsVerify(st) ==
    IF ~st.ok THEN st
    ELSE IF ~custom_ex_ok(st.t, 2) THEN [st EXCEPT !.ok = FALSE]
    ELSE [st EXCEPT !.t = op_equalverify(st.t)]

\* mutant of EqualsLoop: one turn whatever the size
EqualsLoop_Once(st, consume_1, consume_2, dont_move, i, size) ==
    IF i >= 1 \/ size = 0 THEN st
    ELSE EqualsVerify(EqualsSecond(EqualsFirst(EqualsExtract(st, dont_move),
                                               consume_1, i),
                                   consume_2, dont_move, i))

RECURSIVE EqualsLoop(_, _, _, _, _, _)
\* for i in 0..var1.size { ... }
EqualsLoop(st, consume_1, consume_2, dont_move, i, size) ==
    IF i >= size \/ ~st.ok THEN st
    ELSE EqualsLoop(
            EqualsVerify(EqualsSecond(EqualsFirst(EqualsExtract(st, dont_move),
                                                  consume_1, i),
                                      consume_2, dont_move, i)),
            consume_1, consume_2, dont_move, i + 1, size)

\* the call of equals run to its end: the tracker, the two &mut variables,
\* and ok, false when an assert or an unwrap of the call panics
equals_run(t, var1, consume_1, var2, consume_2) ==
    IF var1.size # var2.size \/ var1.id = var2.id \/ t.data.stack = <<>>
    THEN [t |-> t, var1 |-> var1, var2 |-> var2, ok |-> FALSE]
    ELSE EqualsLoop([t |-> t, var1 |-> var1, var2 |-> var2, ok |-> TRUE],
                    consume_1, consume_2,
                    consume_2 /\ Last(t.data.stack).id = var2.id,
                    0, var1.size)

equals_ok(t, var1, consume_1, var2, consume_2) ==
    equals_run(t, var1, consume_1, var2, consume_2).ok

equals(t, var1, consume_1, var2, consume_2) ==
    equals_run(t, var1, consume_1, var2, consume_2).t

\* the variable at depth k of main (0 is the top)
Peek(d, k) == d.stack[Len(d.stack) - k]

\* the unwrap of the two pops
op_swap_ok(t) == Len(t.data.stack) >= 2

op_swap(t) ==
    LET x == Peek(t.data, 0)
        y == Peek(t.data, 1)
        d == push_stack(push_stack(PopCount(t.data, 2), x), y)
    IN  op([t EXCEPT !.data = d], "OP_SWAP", 0, FALSE, <<"OP_SWAP()">>)

op_2swap_ok(t) == Len(t.data.stack) >= 4

op_2swap(t) ==
    LET d == Peek(t.data, 0)
        c == Peek(t.data, 1)
        b == Peek(t.data, 2)
        a == Peek(t.data, 3)
        d1 == push_stack(push_stack(push_stack(push_stack(
                  PopCount(t.data, 4), c), d), a), b)
    IN  op([t EXCEPT !.data = d1], "OP_2SWAP", 0, FALSE, <<"OP_2SWAP()">>)

\* assert!(x.size == 1 && y.size == 1) after the two pops
op_tuck_ok(t) ==
    /\ Len(t.data.stack) >= 2
    /\ Peek(t.data, 0).size = 1
    /\ Peek(t.data, 1).size = 1

op_tuck_ret(t) == StackVariable(t.counter + 1, 1)

op_tuck(t) ==
    LET var_ == StackVariable(t.counter + 1, 1)
        x == Peek(t.data, 0)
        y == Peek(t.data, 1)
        t1 == [next_counter(t) EXCEPT !.data = PopCount(@, 2)]
        t2 == push(push(push(t1, var_), y), x)
    IN  push_script([t2 EXCEPT !.data = set_name(@, var_, <<"OP_TuCK()">>)],
                    <<Op("OP_TUCK")>>)

\* assert!(x.size == 1 && y.size == 1 && z.size == 1) after the three pops
op_rot_ok(t) ==
    /\ Len(t.data.stack) >= 3
    /\ \A k \in 0..2 : Peek(t.data, k).size = 1

op_rot(t) ==
    LET x == Peek(t.data, 0)
        y == Peek(t.data, 1)
        z == Peek(t.data, 2)
        d == push_stack(push_stack(push_stack(PopCount(t.data, 3), y), x), z)
    IN  op([t EXCEPT !.data = d], "OP_ROT", 0, FALSE, <<"OP_ROT()">>)

op_2rot_ok(t) == Len(t.data.stack) >= 6

op_2rot(t) ==
    LET f == Peek(t.data, 0)
        e == Peek(t.data, 1)
        d == Peek(t.data, 2)
        c == Peek(t.data, 3)
        b == Peek(t.data, 4)
        a == Peek(t.data, 5)
        d1 == push_stack(push_stack(push_stack(push_stack(push_stack(push_stack(
                  PopCount(t.data, 6), c), d), e), f), a), b)
    IN  op([t EXCEPT !.data = d1], "OP_2ROT", 0, FALSE, <<"OP_2ROT()">>)

\* number(value): var(1, script!{{value}}, "number({:#x})")
number(t, value) ==
    var(t, 1, <<Push(value)>>, <<"number(", ToString(value), ")">>)

op_add(t) == op(t, "OP_ADD", 2, TRUE, <<"OP_ADD()">>)

op_pick(t) == op(t, "OP_PICK", 1, TRUE, <<"OP_PICK()">>)

\* get_offset(table) - 1 on a u32, and self.data.names[&table.id]
get_value_from_table_ok(t, table, offset) ==
    /\ get_offset_ok(t, table)
    /\ get_offset(t, table) >= 1
    /\ get_var_name_ok(t, table)

\* the variable op_pick() returns
get_value_from_table_ret(t) == StackVariable(t.counter + 3, 1)

\* mutant of get_value_from_table: the offset of the table is not reduced by
\* the index variable on top of it
get_value_from_table_Whole(t, table, offset) ==
    LET t1 == number(t, get_offset(t, table) + offset)
        t3 == op_pick(op_add(t1))
    IN  rename(t3, Last(t3.data.stack),
               <<"from:(">> \o t3.data.names[table.id] \o <<")">>)

\* offset: Option<u32>, here offset.unwrap_or(0)
get_value_from_table(t, table, offset) ==
    LET t1 == number(t, get_offset(t, table) - 1 + offset)
        t3 == op_pick(op_add(t1))
    IN  rename(t3, Last(t3.data.stack),
               <<"from:(">> \o t3.data.names[table.id] \o <<")">>)

\* get_var_from_stack(1) and the name lookup of op_over
op_over_ok(t) ==
    /\ get_var_from_stack_ok(t, 1)
    /\ get_var_name_ok(t, get_var_from_stack(t, 1))

\* the variable op returns
op_over_ret(t) == StackVariable(t.counter + 1, 1)

op_over(t) ==
    LET x    == get_var_from_stack(t, 1)
        name == get_var_name(t, x)
    IN  op(t, "OP_OVER", 0, TRUE, name)

\* get_var_from_stack(3), get_var_from_stack(2) and the name lookups
op_2over_ok(t) ==
    /\ get_var_from_stack_ok(t, 3)
    /\ get_var_name_ok(t, get_var_from_stack(t, 3))
    /\ get_var_name_ok(t, get_var_from_stack(t, 2))

\* (x, self.op(OP_2OVER, 0, true, &namey).unwrap())
op_2over_ret(t) ==
    <<get_var_from_stack(t, 3), StackVariable(t.counter + 2, 1)>>

op_2over(t) ==
    LET x     == get_var_from_stack(t, 3)
        name  == get_var_name(t, x)
        y     == get_var_from_stack(t, 2)
        namey == get_var_name(t, y)
    IN  op(define(t, 1, name), "OP_2OVER", 0, TRUE, namey)

-----------------------------------------------------------------------------
(* The state machine of one tracker and its caller.                        *)

Tracker ==
    [data |-> data, script |-> script, history |-> history,
     counter |-> counter, max_stack_size |-> max_stack_size,
     with_history |-> with_history, breakpoint |-> breakpoint]

\* the tracker after the call becomes the state (r: t evaluated once)
SetTracker(t) ==
    \E r \in {t} :
        /\ data' = r.data
        /\ script' = r.script
        /\ history' = r.history
        /\ counter' = r.counter
        /\ max_stack_size' = r.max_stack_size
        /\ with_history' = r.with_history
        /\ breakpoint' = r.breakpoint

Range(s) == {s[i] : i \in 1..Len(s)}

\* the variables the caller can pass: those it was returned, and those
\* get_var_from_stack gives it
Handles == handles \cup Range(data.stack)

\* the call of the last step: the verb, its variable argument as passed,
\* and its integer argument
Call(verb, v, n) == [verb |-> verb, var |-> v, n |-> n]

\* the verbs that always panic
RefusedVerbs == {"op_ifdup", "op_roll"}

\* a call panicked: the program has stopped
Panicked == last.verb \in RefusedVerbs

\* the caller can make one more call: no call follows a panic, and none is
\* made while interactive() holds the tracker
CanCall ==
    /\ ~Panicked
    /\ nverbs < MaxVerbs
    /\ ~session.open
    /\ ~session.panicked

\* what every call does to the caller's side
CalledAs(call, returned) ==
    /\ CanCall
    /\ nverbs' = nverbs + 1
    /\ last' = call
    /\ handles' = handles \cup returned
    /\ snaps' = snaps
    /\ UNCHANGED optvars
    /\ UNCHANGED dbgvars

\* a call on the tracker that is not open_if or end_if
Called(verb, v, n, returned) ==
    /\ CalledAs(Call(verb, v, n), returned)
    /\ UNCHANGED branches

\* no interactive session: the values interactive() starts with
NoSession ==
    [open |-> FALSE, panicked |-> FALSE, step |-> 0, max_step |-> 0,
     bp_name |-> <<>>, trim |-> TRUE]

\* no conditional is open
NoBranches ==
    [open |-> FALSE, if_true |-> StackTrackerNew, if_false |-> StackTrackerNew,
     issued |-> [if_true |-> <<>>, if_false |-> <<>>], calls |-> 0]

\* the script a caller hands to var(size, script, name) for the variable id:
\* size pushes of distinct integers
PushesOf(id, size) == [i \in 1..size |-> Push(10 * id + i - 1)]

\* sizes of the variables var() introduces: number (1), byte (2)
VarSizes == {1, 2}

\* the index n passed to copy_var_sub_n and move_var_sub_n
SubIndexes == {0, 1}

Out(size, name) == [size |-> size, name |-> name]

CustomCall(scr, consumes, output_vars, to_alt) ==
    [scr |-> scr, consumes |-> consumes, output_vars |-> output_vars,
     to_alt |-> to_alt]

\* calls of custom_ex whose declared accounting is that of the script when
\* the variables consumed have size 1
CustomCalls ==
    { CustomCall(<<Push(1), Push(2)>>, 0, <<Out(1, <<"a">>), Out(1, <<"b">>)>>, 0),
      CustomCall(<<Push(1), Push(2)>>, 0, <<Out(2, <<"ab">>)>>, 0),
      CustomCall(<<Push(3), Op("OP_TOALTSTACK")>>, 0, <<>>, 1) }

Wrapper(verb, opcode, consumes, output, name) ==
    [verb |-> verb, opcode |-> opcode, consumes |-> consumes,
     output |-> output, name |-> name]

\* the opcode wrappers explored, with the arguments each passes to op()
OpWrappers ==
    { Wrapper("op_add", "OP_ADD", 2, TRUE, <<"OP_ADD()">>),
      Wrapper("op_1add", "OP_1ADD", 1, TRUE, <<"OP_1ADD()">>),
      Wrapper("op_equalverify", "OP_EQUALVERIFY", 2, FALSE, <<"OP_EQUALVERIFY()">>),
      Wrapper("op_dup", "OP_DUP", 0, TRUE, <<"OP_DUP">>) }

InitTracker ==
    /\ data = StackDataNew(TRUE)
    /\ script = <<>>
    /\ history = <<>>
    /\ counter = 0
    /\ max_stack_size = 0
    /\ with_history = TRUE
    /\ breakpoint = <<>>
    /\ handles = {}
    /\ snaps = <<>>
    /\ last = Call("new", null, 0)
    /\ nverbs = 0

\* a tracker and no call of optimize
Init ==
    /\ InitTracker
    /\ input = <<>>
    /\ overflow_checks = TRUE
    /\ outcome = "ready"
    /\ optimized = <<>>
    /\ origin = <<>>
    /\ branches = NoBranches
    /\ loop = LoopStart(input)
    /\ res = None
    /\ session = NoSession

Define ==
    \E size \in Sizes :
        /\ SetTracker(define(Tracker, size, <<"d">>))
        /\ Called("define", null, size, {define_ret(Tracker, size)})

Var ==
    \E size \in VarSizes :
        /\ SetTracker(var(Tracker, size, PushesOf(counter + 1, size), <<"v">>))
        /\ Called("var", null, size, {define_ret(Tracker, size)})

\* rename reads only the id of its argument: one handle per id is enough
Rename ==
    \E v \in Handles :
        /\ \A w \in Handles : w.id = v.id => w.size >= v.size
        /\ SetTracker(rename(Tracker, v, <<"r">>))
        /\ Called("rename", v, 0, {})

Drop ==
    \E v \in Handles :
        /\ drop_ok(Tracker, v)
        /\ SetTracker(drop(Tracker, v))
        /\ Called("drop", v, 0, {})

ToAltstack ==
    /\ to_altstack_ok(Tracker)
    /\ SetTracker(to_altstack(Tracker))
    /\ Called("to_altstack", null, 0, {to_altstack_ret(Tracker)})

FromAltstack ==
    /\ from_altstack_ok(Tracker)
    /\ SetTracker(from_altstack(Tracker))
    /\ Called("from_altstack", null, 0, {from_altstack_ret(Tracker)})

MoveVar ==
    \E v \in Handles :
        /\ move_var_ok(Tracker, v)
        /\ SetTracker(move_var(Tracker, v))
        /\ Called("move_var", v, 0, {})

CopyVar ==
    \E v \in Handles :
        /\ copy_var_ok(Tracker, v)
        /\ SetTracker(copy_var(Tracker, v))
        /\ Called("copy_var", v, 0, {copy_var_ret(Tracker, v)})

CopyVarSubN ==
    \E v \in Handles, n \in SubIndexes :
        /\ copy_var_sub_n_ok(Tracker, v, n)
        /\ SetTracker(copy_var_sub_n(Tracker, v, n))
        /\ Called("copy_var_sub_n", v, n, {copy_var_sub_n_ret(Tracker)})

MoveVarSubN ==
    \E v \in Handles, n \in SubIndexes :
        /\ move_var_sub_n_ok(Tracker, v, n)
        /\ SetTracker(move_var_sub_n(Tracker, v, n))
        /\ Called("move_var_sub_n", v, n,
                  {move_var_sub_n_ret(Tracker), move_var_sub_n_var(v)})

Join ==
    \E v \in Handles :
        /\ join_ok(Tracker, v)
        /\ SetTracker(join(Tracker, v))
        /\ Called("join", v, 0, {join_var(Tracker, v)})

Explode ==
    \E v \in Handles :
        /\ explode_ok(Tracker, v)
        /\ SetTracker(explode(Tracker, v))
        /\ Called("explode", v, 0, Range(explode_ret(Tracker, v)))

CustomEx ==
    \E c \in CustomCalls :
        /\ custom_ex_ok(Tracker, c.consumes)
        /\ SetTracker(custom_ex(Tracker, c.scr, c.consumes, c.output_vars, c.to_alt))
        /\ Called("custom_ex", null, c.consumes,
                  Range(custom_ex_ret([Tracker EXCEPT !.data = PopCount(@, c.consumes)],
                                      c.output_vars)))

OpWrapper ==
    \E w \in OpWrappers :
        /\ custom_ex_ok(Tracker, w.consumes)
        /\ SetTracker(op(Tracker, w.opcode, w.consumes, w.output, w.name))
        /\ Called(w.verb, null, w.consumes,
                  IF w.output THEN {define_ret(Tracker, 1)} ELSE {})

SetBreakpoint ==
    /\ SetTracker(set_breakpoint(Tracker, <<"bp">>))
    /\ Called("set_breakpoint", null, 0, {})

Debug ==
    /\ SetTracker(debug(Tracker))
    /\ Called("debug", null, 0, {})

Next ==
    \/ Define
    \/ Var
    \/ Rename
    \/ Drop
    \/ ToAltstack
    \/ FromAltstack
    \/ MoveVar
    \/ CopyVar
    \/ CopyVarSubN
    \/ MoveVarSubN
    \/ Join
    \/ Explode
    \/ CustomEx
    \/ OpWrapper
    \/ SetBreakpoint
    \/ Debug

Spec == Init /\ [][Next]_vars

-----------------------------------------------------------------------------
(* The state machine of one journal-enabled StackData used directly, as    *)
(* tests::test_redo_log does: each step is one mutating operation.         *)

\* what every operation on the StackData does to the rest of the state;
\* snaps records the model the operation leaves
DataCalled(verb, v, n) ==
    /\ Len(snaps) < MaxOps
    /\ snaps' = Append(snaps, Model(data'))
    /\ last' = Call(verb, v, n)
    /\ UNCHANGED <<script, history, counter, max_stack_size, with_history,
                   breakpoint, handles, nverbs, branches>>
    /\ UNCHANGED optvars
    /\ UNCHANGED dbgvars

DataPushStack ==
    \E id \in DataIds, size \in DataSizes :
        /\ data' = push_stack(data, StackVariable(id, size))
        /\ DataCalled("push_stack", StackVariable(id, size), 0)

DataPushAltstack ==
    \E id \in DataIds, size \in DataSizes :
        /\ data' = push_altstack(data, StackVariable(id, size))
        /\ DataCalled("push_altstack", StackVariable(id, size), 0)

DataPopStack ==
    /\ pop_stack_ok(data)
    /\ data' = pop_stack(data)
    /\ DataCalled("pop_stack", null, 0)

DataPopAltstack ==
    /\ pop_altstack_ok(data)
    /\ data' = pop_altstack(data)
    /\ DataCalled("pop_altstack", null, 0)

DataSetName ==
    \E id \in DataIds, name \in DataNames :
        /\ data' = set_name(data, StackVariable(id, 2), name)
        /\ DataCalled("set_name", StackVariable(id, 2), 0)

DataRemoveName ==
    \E id \in DataIds :
        /\ data' = remove_name(data, StackVariable(id, 2))
        /\ DataCalled("remove_name", StackVariable(id, 2), 0)

DataRemoveVar ==
    \E id \in DataIds :
        /\ data' = remove_var(data, StackVariable(id, 2))
        /\ DataCalled("remove_var", StackVariable(id, 2), 0)

DataIncreaseSize ==
    \E idx \in 0..(Len(data.stack) - 1) :
        /\ increase_size_ok(data, idx)
        /\ data' = increase_size(data, idx, 1)
        /\ DataCalled("increase_size", null, idx)

DataDecreaseSize ==
    \E id \in DataIds :
        /\ decrease_size_ok(data, StackVariable(id, 2))
        /\ data' = decrease_size(data, StackVariable(id, 2))
        /\ DataCalled("decrease_size", StackVariable(id, 2), 0)

DataNext ==
    \/ DataPushStack
    \/ DataPushAltstack
    \/ DataPopStack
    \/ DataPopAltstack
    \/ DataSetName
    \/ DataRemoveName
    \/ DataRemoveVar
    \/ DataIncreaseSize
    \/ DataDecreaseSize

SpecData == Init /\ [][DataNext]_vars

-----------------------------------------------------------------------------
(* The state machine of a tracker whose caller uses the counted verbs      *)
(* (to_altstack_count, from_altstack_count, from_altstack_joined,          *)
(* join_count), custom_ex with every kind of accounting, and the two       *)
(* opcodes the tracker refuses.                                            *)

\* the count passed to to_altstack_count, from_altstack_count and join_count
Counts == {0, 1, 2}

\* the count passed to from_altstack_joined
JoinedCounts == {1, 2, 3}

\* calls of custom_ex: three outputs; two and three variables sent to alt;
\* one variable consumed, one output and one variable sent to alt; two
\* variables consumed and nothing else
MoreCustomCalls ==
    { CustomCall(<<Push(1), Push(2), Push(3)>>, 0,
                 <<Out(1, <<"a">>), Out(1, <<"b">>), Out(1, <<"c">>)>>, 0),
      CustomCall(<<Push(3), Op("OP_TOALTSTACK"), Push(4), Op("OP_TOALTSTACK")>>,
                 0, <<>>, 2),
      CustomCall(<<Push(5), Op("OP_TOALTSTACK"), Push(6), Op("OP_TOALTSTACK"),
                   Push(7), Op("OP_TOALTSTACK")>>, 0, <<>>, 3),
      CustomCall(<<Op("OP_DUP"), Op("OP_TOALTSTACK")>>, 1, <<Out(1, <<"x">>)>>, 1),
      CustomCall(<<Op("OP_2DROP")>>, 2, <<>>, 0) }

\* what a call that panics does to the caller's side
Refused(verb) ==
    /\ ~Panicked
    /\ nverbs < MaxVerbs
    /\ nverbs' = nverbs + 1
    /\ last' = [verb |-> verb, var |-> null, n |-> 0, outcome |-> panic]
    /\ UNCHANGED <<handles, snaps, branches>>
    /\ UNCHANGED optvars
    /\ UNCHANGED dbgvars

CustomMore ==
    \E c \in MoreCustomCalls :
        /\ custom_ex_ok(Tracker, c.consumes)
        /\ SetTracker(custom_ex(Tracker, c.scr, c.consumes, c.output_vars, c.to_alt))
        /\ Called("custom_ex", null, c.consumes,
                  Range(custom_ex_ret([Tracker EXCEPT !.data = PopCount(@, c.consumes)],
                                      c.output_vars)))

ToAltstackCount ==
    \E count \in Counts :
        /\ to_altstack_count_ok(Tracker, count)
        /\ SetTracker(to_altstack_count(Tracker, count))
        /\ Called("to_altstack_count", null, count,
                  Range(to_altstack_count_ret(Tracker, count)))

FromAltstackCount ==
    \E count \in Counts :
        /\ from_altstack_count_ok(Tracker, count)
        /\ SetTracker(from_altstack_count(Tracker, count))
        /\ Called("from_altstack_count", null, count,
                  Range(from_altstack_count_ret(Tracker, count)))

FromAltstackJoined ==
    \E count \in JoinedCounts :
        /\ from_altstack_joined_ok(Tracker, count)
        /\ SetTracker(from_altstack_joined(Tracker, count, <<"j">>))
        /\ Called("from_altstack_joined", null, count,
                  {from_altstack_joined_ret(Tracker, count)})

JoinCount ==
    \E v \in Handles, count \in Counts :
        /\ join_count_ok(Tracker, v, count)
        /\ SetTracker(join_count(Tracker, v, count))
        /\ Called("join_count", v, count, {join_count_ret(Tracker, v, count)})

OpIfdup ==
    /\ SetTracker(op_ifdup(Tracker))
    /\ Refused("op_ifdup")

OpRoll ==
    /\ SetTracker(op_roll(Tracker))
    /\ Refused("op_roll")

NextCounts ==
    \/ Var
    \/ CustomMore
    \/ ToAltstack
    \/ FromAltstack
    \/ ToAltstackCount
    \/ FromAltstackCount
    \/ FromAltstackJoined
    \/ Join
    \/ JoinCount
    \/ OpIfdup
    \/ OpRoll

SpecCounts == Init /\ [][NextCounts]_vars

-----------------------------------------------------------------------------
(* The state machine of a tracker whose caller reorders the top of main,   *)
(* compares variables, reads tables and sets breakpoints.                  *)

\* three numbers pushed and declared by one custom_ex
PushThree ==
    \E c \in {CustomCall(<<Push(1), Push(2), Push(3)>>, 0,
                         <<Out(1, <<"a">>), Out(1, <<"b">>), Out(1, <<"c">>)>>, 0)} :
        /\ SetTracker(custom_ex(Tracker, c.scr, c.consumes, c.output_vars, c.to_alt))
        /\ Called("custom_ex", null, c.consumes,
                  Range(custom_ex_ret(Tracker, c.output_vars)))

OpSwap ==
    /\ op_swap_ok(Tracker)
    /\ SetTracker(op_swap(Tracker))
    /\ Called("op_swap", null, 0, {})

Op2Swap ==
    /\ op_2swap_ok(Tracker)
    /\ SetTracker(op_2swap(Tracker))
    /\ Called("op_2swap", null, 0, {})

OpTuck ==
    /\ op_tuck_ok(Tracker)
    /\ SetTracker(op_tuck(Tracker))
    /\ Called("op_tuck", null, 0, {op_tuck_ret(Tracker)})

OpRot ==
    /\ op_rot_ok(Tracker)
    /\ SetTracker(op_rot(Tracker))
    /\ Called("op_rot", null, 0, {})

Op2Rot ==
    /\ op_2rot_ok(Tracker)
    /\ SetTracker(op_2rot(Tracker))
    /\ Called("op_2rot", null, 0, {})

\* equals(&mut var1, consume_1, &mut var2, consume_2) on two variables as
\* main holds them; the caller's two variables are left as the call updated
\* them
Equals ==
    /\ CanCall
    /\ \E v1 \in Range(data.stack), v2 \in Range(data.stack),
          consume_1 \in BOOLEAN, consume_2 \in BOOLEAN :
          \E st \in {equals_run(Tracker, v1, consume_1, v2, consume_2)} :
              /\ st.ok
              /\ SetTracker(st.t)
              /\ CalledAs([verb |-> "equals", var |-> v1, n |-> 0, var2 |-> v2,
                           consume_1 |-> consume_1, consume_2 |-> consume_2],
                          {st.var1, st.var2})
              /\ UNCHANGED branches

\* the offset passed to get_value_from_table: None, Some(1)
TableOffsets == {0, 1}

GetValueFromTable ==
    /\ CanCall
    /\ \E table \in Range(data.stack), offset \in TableOffsets :
          /\ get_value_from_table_ok(Tracker, table, offset)
          /\ SetTracker(get_value_from_table(Tracker, table, offset))
          /\ Called("get_value_from_table", table, offset,
                    {get_value_from_table_ret(Tracker)})

NextVerbs ==
    \/ Var
    \/ PushThree
    \/ SetBreakpoint
    \/ Join
    \/ OpSwap
    \/ Op2Swap
    \/ OpTuck
    \/ OpRot
    \/ Op2Rot
    \/ Equals
    \/ GetValueFromTable

SpecVerbs == Init /\ [][NextVerbs]_vars

-----------------------------------------------------------------------------
(* The state machine of a tracker whose caller opens a conditional: the    *)
(* two branch trackers open_if returns are the caller's until end_if takes *)
(* them back.                                                              *)

\* the caller makes at most MaxBranchVerbs calls on the branch trackers
MaxBranchVerbs == 2

\* the verbs the caller issues on a branch tracker
BranchVerbs == {"number", "op_drop", "to_altstack"}

BranchCall_ok(t, verb) ==
    CASE verb = "number" -> TRUE
      [] verb = "op_drop" -> op_drop_ok(t)
      [] verb = "to_altstack" -> to_altstack_ok(t)

BranchCall(t, verb) ==
    CASE verb = "number" -> number(t, 7)
      [] verb = "op_drop" -> op_drop(t)
      [] verb = "to_altstack" -> to_altstack(t)

\* the arguments of end_if: what the caller declares the branches did
EndIfCalls ==
    { CustomCall(<<>>, 0, <<>>, 0),
      CustomCall(<<>>, 1, <<>>, 0),
      CustomCall(<<>>, 0, <<Out(1, <<"r">>)>>, 0),
      CustomCall(<<>>, 0, <<>>, 1),
      CustomCall(<<>>, 0, <<Out(1, <<"r">>)>>, 1) }

\* a verb on the parent while no conditional is open
ParentVar ==
    /\ ~branches.open
    /\ Var

OpenIf ==
    /\ ~branches.open
    /\ open_if_ok(Tracker)
    /\ SetTracker(open_if(Tracker))
    /\ branches' = [open |-> TRUE,
                    if_true |-> open_if_ret(Tracker)[1],
                    if_false |-> open_if_ret(Tracker)[2],
                    issued |-> [if_true |-> <<>>, if_false |-> <<>>],
                    calls |-> 0]
    /\ CalledAs(Call("open_if", null, 0), {})

\* a verb on one of the branch trackers; issued records the fragments it adds
OnBranch ==
    /\ branches.open
    /\ branches.calls < MaxBranchVerbs
    /\ \E side \in {"if_true", "if_false"}, verb \in BranchVerbs :
          /\ BranchCall_ok(branches[side], verb)
          /\ \E t \in {BranchCall(branches[side], verb)} :
                branches' = [branches EXCEPT
                                ![side] = t,
                                !.issued[side] =
                                    @ \o skip(t.script, Len(branches[side].script)),
                                !.calls = @ + 1]
    /\ UNCHANGED <<data, script, history, counter, max_stack_size, with_history,
                   breakpoint, handles, snaps, last, nverbs>>
    /\ UNCHANGED optvars
    /\ UNCHANGED dbgvars

EndIf ==
    /\ branches.open
    /\ \E c \in EndIfCalls :
          /\ end_if_ok(Tracker, c.consumes)
          /\ SetTracker(end_if(Tracker, branches.if_true, branches.if_false,
                               c.consumes, c.output_vars, c.to_alt))
          /\ CalledAs([verb |-> "end_if", var |-> null, n |-> c.consumes,
                       output_vars |-> c.output_vars, to_alt |-> c.to_alt],
                      Range(end_if_ret(Tracker, c.consumes, c.output_vars)))
    /\ branches' = NoBranches

NextIf ==
    \/ ParentVar
    \/ OpenIf
    \/ OnBranch
    \/ EndIf

SpecIf == Init /\ [][NextIf]_vars

-----------------------------------------------------------------------------
(* The state machine of a tracker whose caller copies variables with       *)
(* op_over and op_2over.                                                   *)

OpOver ==
    /\ CanCall
    /\ op_over_ok(Tracker)
    /\ SetTracker(op_over(Tracker))
    /\ CalledAs([verb |-> "op_over", var |-> null, n |-> 0,
                 ret |-> <<op_over_ret(Tracker)>>],
                {op_over_ret(Tracker)})
    /\ UNCHANGED branches

Op2Over ==
    /\ CanCall
    /\ op_2over_ok(Tracker)
    /\ SetTracker(op_2over(Tracker))
    /\ CalledAs([verb |-> "op_2over", var |-> null, n |-> 0,
                 ret |-> op_2over_ret(Tracker)],
                Range(op_2over_ret(Tracker)))
    /\ UNCHANGED branches

NextOver ==
    \/ Var
    \/ PushThree
    \/ Rename
    \/ OpSwap
    \/ OpOver
    \/ Op2Over

SpecOver == Init /\ [][NextOver]_vars

-----------------------------------------------------------------------------
(* The state machine of one call of optimize: the caller hands it a script *)
(* and the build either checks integer overflow (the dev and test          *)
(* profiles) or does not (the release profile).                            *)

\* the scripts explored have at most MaxLen instructions after their setup
MaxLen == 3
\* and runs of at most MaxRun identical digits
MaxRun == 17

\* the instructions of the scripts handed to optimize
Alphabet ==
    {Push(0), Push(1), Push(2), Push(3)} \cup
    {Op(o) : o \in {"OP_PICK", "OP_ROLL", "OP_DUP", "OP_2DUP", "OP_3DUP",
                    "OP_SWAP", "OP_ROT", "OP_OVER", "OP_DROP",
                    "OP_TOALTSTACK", "OP_FROMALTSTACK"}}

\* what a script starts with: nothing, or three pushes that are not digits
Setups == {<<>>, <<Push(20), Push(21), Push(22)>>}

\* every sequence of at most n instructions
Scripts(n) == UNION {[1..k -> Alphabet] : k \in 0..n}

\* n times the push of the digit d
RunOf(d, n) == [k \in 1..n |-> Push(d)]

\* a run of a digit, after a setup and before at most one instruction
RunScripts ==
    {pre \o RunOf(d, n) \o post :
        pre \in Setups, d \in {0, 1}, n \in 1..MaxRun, post \in Scripts(1)}

\* the scripts of tests::test_pick_0, test_pick_1 and test_roll_2, the roll
\* of the third entry, a roll of the top entry before an altstack round
\* trip, and an altstack round trip inside another
Examples ==
    { <<Push(1), Push(20), Push(0), Op("OP_PICK"), Push(20), Op("OP_EQUALVERIFY"),
        Op("OP_DROP")>>,
      <<Push(1), Push(20), Push(1), Op("OP_PICK"), Push(1), Op("OP_EQUALVERIFY"),
        Op("OP_DROP")>>,
      <<Push(1), Push(20), Push(2), Push(2), Push(2), Op("OP_ROLL"), Push(20),
        Op("OP_EQUALVERIFY"), Op("OP_2DROP")>>,
      <<Push(1), Push(20), Push(2), Op("OP_ROLL")>>,
      <<Push(20), Push(0), Op("OP_ROLL"), Op("OP_TOALTSTACK"),
        Op("OP_FROMALTSTACK")>>,
      <<Push(20), Push(21), Op("OP_TOALTSTACK"), Op("OP_TOALTSTACK"),
        Op("OP_FROMALTSTACK"), Op("OP_FROMALTSTACK")>> }

Inputs ==
    {pre \o body : pre \in Setups, body \in Scripts(MaxLen)} \cup RunScripts
        \cup Examples

InitOpt ==
    /\ InitTracker
    /\ input \in Inputs
    /\ overflow_checks \in BOOLEAN
    /\ outcome = "ready"
    /\ optimized = <<>>
    /\ origin = <<>>
    /\ branches = NoBranches
    /\ loop = LoopStart(input)
    /\ res = None
    /\ session = NoSession

\* optimize(input): the script returned, or the panic
Optimize ==
    /\ outcome = "ready"
    /\ \E st \in {optimize_run(input, overflow_checks)} :
          /\ outcome' = IF st.out = "panic" THEN panic ELSE "returned"
          /\ optimized' = IF st.out = "panic" THEN <<>> ELSE from_vec(st.ins)
          /\ origin' = IF st.out = "panic" THEN <<>> ELSE st.org
          /\ loop' = st
    /\ UNCHANGED <<data, script, history, counter, max_stack_size, with_history,
                   breakpoint, handles, snaps, last, nverbs, input,
                   overflow_checks, branches>>
    /\ UNCHANGED dbgvars

NextOpt == Optimize

SpecOpt == InitOpt /\ [][NextOpt]_vars

-----------------------------------------------------------------------------
(* The call of optimize turn by turn: each step is one turn of its while   *)
(* loop, and the call ends when the loop does.                             *)

\* the scripts given to the loop have at most MaxLoopLen instructions, or
\* are a run of at most MaxLoopRun zeros or ones before at most one
\* instruction, or one of the examples
MaxLoopLen == 2
MaxLoopRun == 5

LoopInputs ==
    Scripts(MaxLoopLen) \cup Examples
        \cup {RunOf(d, n) \o post :
                 d \in {0, 1}, n \in 1..MaxLoopRun, post \in Scripts(1)}

InitLoop ==
    /\ InitTracker
    /\ input \in LoopInputs
    /\ overflow_checks \in BOOLEAN
    /\ outcome = "ready"
    /\ optimized = <<>>
    /\ origin = <<>>
    /\ branches = NoBranches
    /\ loop = LoopStart(input)
    /\ res = None
    /\ session = NoSession

\* while i < len
LoopRuns == loop.out = "run" /\ loop.i < loop.len

\* one turn of the while loop
Turn ==
    /\ outcome = "ready"
    /\ LoopRuns
    /\ loop' = OptimizeTurn(loop, overflow_checks)
    /\ UNCHANGED <<data, script, history, counter, max_stack_size, with_history,
                   breakpoint, handles, snaps, last, nverbs, input,
                   overflow_checks, outcome, optimized, origin, branches>>
    /\ UNCHANGED dbgvars

\* the loop is over: from_vec(instructions) is returned, or the call panics
LoopEnd ==
    /\ outcome = "ready"
    /\ ~LoopRuns
    /\ outcome' = IF loop.out = "panic" THEN panic ELSE "returned"
    /\ optimized' = IF loop.out = "panic" THEN <<>> ELSE from_vec(loop.ins)
    /\ origin' = IF loop.out = "panic" THEN <<>> ELSE loop.org
    /\ UNCHANGED <<data, script, history, counter, max_stack_size, with_history,
                   breakpoint, handles, snaps, last, nverbs, input,
                   overflow_checks, branches, loop>>
    /\ UNCHANGED dbgvars

NextLoop == Turn \/ LoopEnd

\* the call keeps running: a turn that can be taken is taken
SpecLoop == InitLoop /\ [][NextLoop]_vars /\ WF_vars(NextLoop)

-----------------------------------------------------------------------------
(* The debugger: execute_step on a tracker the caller built, and the       *)
(* interactive session, one action per key event.  Both take the tracker   *)
(* by shared reference.                                                    *)

\* what a step of the debugger leaves alone: the tracker and the caller
DebuggerStep(call) ==
    /\ ~Panicked
    /\ ~session.panicked
    /\ last' = call
    /\ UNCHANGED <<data, script, history, counter, max_stack_size,
                   with_history, breakpoint, handles, snaps, nverbs, branches>>
    /\ UNCHANGED optvars

\* execute_step(&stack, k) called for a step of the script list
ExecuteStep ==
    \E k \in 0..(Len(script) - 1) :
        /\ ~session.open
        /\ execute_step_ok(Tracker, k)
        /\ DebuggerStep(Call("execute_step", null, k))
        /\ res' = Some([step_number |-> k, result |-> execute_step(Tracker, k)])
        /\ session' = session

\* show_step(stack, step, bp_name, trim): the step is executed and shown,
\* or the index into history panics
show_step(ses) ==
    IF execute_step_ok(Tracker, ses.step)
    THEN /\ res' = Some([step_number |-> ses.step,
                          result |-> execute_step(Tracker, ses.step)])
         /\ session' = ses
    ELSE /\ res' = None
         /\ session' = [ses EXCEPT !.panicked = TRUE]

\* interactive(&stack) up to its loop: step 0 is shown
Interactive ==
    /\ ~session.open
    /\ DebuggerStep(Call("interactive", null, 0))
    /\ show_step([open |-> TRUE, panicked |-> FALSE, step |-> 0,
                  max_step |-> Len(script) - 1, bp_name |-> <<>>, trim |-> TRUE])

KeyCodes ==
    {"n", "p", "t", "Left", "Right", "Home", "End", "Up", "Down", "PageUp",
     "PageDown", "other"}

\* the change a key asks for, before the multiplier
ChangeOf(code) ==
    CASE code = "Left" -> -1
      [] code = "Right" -> 1
      [] code = "Up" -> -100
      [] code = "Down" -> 100
      [] code = "PageUp" -> -1000
      [] code = "PageDown" -> 1000
      [] OTHER -> 0

\* the breakpoint a key jumps to, if any
JumpOf(ses, code) ==
    CASE code = "n" -> get_next_breakpoint(Tracker, ses.step)
      [] code = "p" -> get_prev_breakpoint(Tracker, ses.step)
      [] OTHER -> None

\* mutant of StepAfter: the change is added without the test against max_step
StepAfter_NoClamp(ses, code, shift) ==
    LET jump   == JumpOf(ses, code)
        step1  == IF jump # None THEN jump[1].pos ELSE ses.step
        step2  == IF code = "Home" THEN 0
                  ELSE IF code = "End" THEN ses.max_step ELSE step1
        change == ChangeOf(code) * (IF shift THEN 10 ELSE 1)
    IN  IF change < 0 THEN (IF step2 + change < 0 THEN 0 ELSE step2 + change)
        ELSE step2 + change

\* the step after one pass of the loop body on a key press
StepAfter(ses, code, shift) ==
    LET jump   == JumpOf(ses, code)
        step1  == IF jump # None THEN jump[1].pos ELSE ses.step
        step2  == IF code = "Home" THEN 0
                  ELSE IF code = "End" THEN ses.max_step ELSE step1
        change == ChangeOf(code) * (IF shift THEN 10 ELSE 1)
    IN  IF change < 0 THEN (IF step2 + change < 0 THEN 0 ELSE step2 + change)
        ELSE IF change > 0
        THEN (IF step2 + change < ses.max_step THEN step2 + change
              ELSE ses.max_step)
        ELSE step2

\* one key press that is not q or Esc
Key ==
    \E code \in KeyCodes, shift \in BOOLEAN :
        /\ session.open
        /\ DebuggerStep(Call("key", null, 0))
        /\ show_step([session EXCEPT
               !.step = StepAfter(session, code, shift),
               !.bp_name = IF JumpOf(session, code) # None
                           THEN JumpOf(session, code)[1].name ELSE @,
               !.trim = IF code = "t" THEN ~@ ELSE @])

\* q or Esc: the loop is left and interactive returns
Quit ==
    /\ session.open
    /\ DebuggerStep(Call("quit", null, 0))
    /\ session' = NoSession
    /\ res' = res

NextDebug ==
    \/ Var
    \/ ToAltstack
    \/ FromAltstack
    \/ OpWrapper
    \/ SetBreakpoint
    \/ ExecuteStep
    \/ Interactive
    \/ Key
    \/ Quit

SpecDebug == Init /\ [][NextDebug]_vars

-----------------------------------------------------------------------------
(* Properties.                                                             *)

\* execute_step(stack, k): the run of fragments 0..k (k counts from 1 here)
StepRun(k) == debug_script(Flatten(SubSeq(script, 1, k)))

\* execute_step(stack, k): the symbolic model paired with that run
StepData(k) == new_from_redo_height(data, history[k])

\* a variable was declared with define(), that is, as a value the caller says
\* is on the concrete stack before the program starts
Declared(h) ==
    \E i \in 1..h : data.redo_log[i].op = "SetName" /\ data.redo_log[i].name = <<"d">>

\* C1: at every step k whose run does not fail, the sum of the sizes of the
\* main-stack variables of the model of step k is the depth of the concrete
\* stack left by fragments 0..k.  Programs that declare variables with
\* define() are left out: their values are not pushed by the program.
C1_DepthMatchesModel ==
    \A k \in 1..Len(script) :
        (~StepRun(k).error /\ ~Declared(history[k]))
            => SumSize(StepData(k).stack) = Len(StepRun(k).stack)

\* C2: on a journal-enabled StackData, replaying the first h journal entries
\* into an empty model gives the main stack, the alt stack and the names the
\* source had right after its h-th journaled mutation, for every h from 0 to
\* the journal's length; replaying all of it gives the current model.
C2_ReplayReconstructs ==
    /\ Len(data.redo_log) = Len(snaps)
    /\ \A h \in 0..Len(data.redo_log) :
          Model(new_from_redo_height(data, h)) =
              IF h = 0 THEN Model(StackDataNew(TRUE)) ELSE snaps[h]
    /\ Model(new_from_redo_height(data, Len(data.redo_log))) = Model(data)

\* C2 witness: a journal of three entries ending in a remove_var that took a
\* variable out from under another one
C2_Witness ==
    /\ Len(data.redo_log) = 3
    /\ data.redo_log[3].op = "RemoveVar"
    /\ Len(snaps[2].stack) = 2
    /\ Len(data.stack) = 1
    /\ data.stack[1] = snaps[2].stack[2]

\* the verbs that push no fragment
SilentVerbs == {"define", "join", "explode", "rename"}

\* the last step was a call of a verb
IsCall == nverbs' = nverbs + 1

\* the last step was a move_var of a variable whose offset was 0
IsMoveVarOnTop ==
    /\ IsCall
    /\ last'.verb = "move_var"
    /\ get_offset(Tracker, last'.var) = 0

\* C3 (as stated): every call of a verb appends exactly one fragment to the
\* script list and exactly one entry to history.
C3_EveryVerbAppendsOneFragment ==
    [][IsCall => /\ Len(script') = Len(script) + 1
                 /\ Len(history') = Len(history) + 1]_vars

\* C3 (amended): define, join, explode, rename and move_var of a variable of
\* offset 0 append no fragment and no history entry; every other call appends
\* exactly one fragment and exactly one history entry and keeps the earlier ones.
C3_FragmentPerEmittingVerb ==
    [][IsCall =>
          IF last'.verb \in SilentVerbs \/ IsMoveVarOnTop
          THEN script' = script /\ history' = history
          ELSE /\ Len(script') = Len(script) + 1
               /\ Len(history') = Len(history) + 1
               /\ SubSeq(script', 1, Len(script)) = script
               /\ SubSeq(history', 1, Len(history)) = history]_vars

\* C3 witness: a define made after a fragment was pushed, and the script list
\* still holds that one fragment
C3_Witness ==
    /\ last.verb = "define"
    /\ nverbs = 2
    /\ Len(script) = 1
    /\ Len(data.stack) = 2

\* a step that appended a fragment
AppendsFragment == Len(script') = Len(script) + 1

\* C4 (as stated): history[k] is the journal length from before the verb that
\* appended fragment k mutated the model, and replay(history[k]) is the model
\* that existed before fragment k.
C4_HistoryIsPreMutation ==
    [][AppendsFragment =>
          /\ history'[Len(script')] = Len(data.redo_log)
          /\ Model(new_from_redo_height(data', history'[Len(script')]))
                = Model(data)]_vars

\* C4 (amended): history[k] is the journal length at the moment fragment k was
\* appended, after the mutations of the verb that appended it, and
\* replay(history[k]) is the model that verb left.
C4_HistoryIsPostMutation ==
    [][AppendsFragment =>
          /\ history'[Len(script')] = Len(data'.redo_log)
          /\ Model(new_from_redo_height(data', history'[Len(script')]))
                = Model(data')]_vars

\* C4 witness: a var() whose fragment is the second one; its history entry is
\* the journal length after its push and set_name
C4_Witness ==
    /\ last.verb = "var"
    /\ Len(script) = 2
    /\ history[2] = Len(data.redo_log)
    /\ history[2] = history[1] + 2

\* C5: script list and history have the same length, history never
\* decreases along its indexes, and no entry exceeds the journal length.
C5_HistoryAligned ==
    /\ Len(script) = Len(history)
    /\ \A i \in 1..Len(history) : \A j \in i..Len(history) :
          history[i] <= history[j]
    /\ \A i \in 1..Len(history) : history[i] <= Len(data.redo_log)

\* C5 witness: two fragments with growing history entries, and a journal that
\* has grown since the last fragment
C5_Witness ==
    /\ Len(history) = 2
    /\ history[1] < history[2]
    /\ history[2] < Len(data.redo_log)

\* C6: no id occurs twice in main followed by alt, and none is 0.
C6_IdsUnique ==
    LET all == data.stack \o data.altstack
    IN  /\ \A i \in 1..Len(all) : \A j \in 1..Len(all) :
              all[i].id = all[j].id => i = j
        /\ \A i \in 1..Len(all) : all[i].id # 0

\* C6 witness: variables on both stacks after one came back to main by move_var
C6_Witness ==
    /\ Len(data.stack) >= 2
    /\ Len(data.altstack) >= 1
    /\ last.verb = "move_var"
    /\ Last(data.stack) = last.var
    /\ Len(script) = 3

\* C7: every id in main or alt has an entry in the name map.
C7_EveryVariableNamed ==
    Ids(data.stack) \cup Ids(data.altstack) \subseteq DOMAIN data.names

\* C8: the name map holds no id that is in neither main nor alt.
C8_NoNameWithoutVariable ==
    DOMAIN data.names \subseteq Ids(data.stack) \cup Ids(data.altstack)

\* C9: move_var of a variable whose offset is 0 appends no fragment and no
\* journal entry and leaves main, alt, names, history and counter unchanged.
C9_MoveVarOnTopIsNoOp ==
    [][IsMoveVarOnTop =>
          UNCHANGED <<data, script, history, counter, max_stack_size,
                      with_history, breakpoint>>]_vars

\* C9 witness: after one var(), a move_var of it: one fragment, two calls
C9_Witness ==
    /\ last.verb = "move_var"
    /\ nverbs = 2
    /\ Len(script) = 1
    /\ Len(data.redo_log) = 2
    /\ get_offset(Tracker, last.var) = 0

\* the concrete stack of depth n whose entries are all different
Labelled(n) == [i \in 1..n |-> 100 + i]

\* C10: move_var(V) of a variable V of main with k = get_offset(V) > 0 appends
\* the fragment made of size pairs (push k+size-1, OP_ROLL); afterwards V is
\* the top of main with its id and size and the other variables keep their
\* order; run on a concrete stack, the fragment brings the size entries of V
\* to the top in their order and keeps the order of the others.
C10_MoveVarRolls ==
    [][(/\ IsCall
        /\ last'.verb = "move_var"
        /\ last'.var \in Range(data.stack)
        /\ get_offset(Tracker, last'.var) > 0) =>
          LET V    == last'.var
              k    == get_offset(Tracker, V)
              frag == script'[Len(script')]
              n    == SumSize(data.stack)
              c    == Labelled(n)
              run  == ExecFrom([stack |-> c, altstack |-> <<>>, error |-> FALSE],
                               frag)
              notV(x) == x.id # V.id
          IN  /\ Len(script') = Len(script) + 1
              /\ Len(frag) = 2 * V.size
              /\ \A i \in 1..V.size :
                    /\ frag[2 * i - 1] = Push(k + V.size - 1)
                    /\ frag[2 * i] = Op("OP_ROLL")
              /\ Last(data'.stack) = V
              /\ Front(data'.stack) = SelectSeq(data.stack, notV)
              /\ data'.altstack = data.altstack
              /\ ~run.error
              /\ run.stack =
                    [i \in 1..(n - V.size) |->
                        IF i <= n - k - V.size THEN c[i] ELSE c[i + V.size]]
                    \o SubSeq(c, n - k - V.size + 1, n - k)]_vars

\* C10 witness: a move_var of a variable of size 2 from under another one
C10_Witness ==
    /\ last.verb = "move_var"
    /\ last.var.size = 2
    /\ Last(data.stack) = last.var
    /\ Len(script) = 3
    /\ Len(script[3]) = 4
    /\ script[3][2] = Op("OP_ROLL")

\* the concrete run of the fragment the last step appended, from a stack
\* with one distinct entry per unit of size of the model's main stack
FragRun ==
    ExecFrom([stack |-> Labelled(SumSize(data.stack)), altstack |-> <<>>,
              error |-> FALSE],
             script'[Len(script')])

\* C11: copy_var(V) of a variable V of main with k = get_offset(V) appends the
\* fragment made of size pairs (push k+size-1, OP_PICK), pushes on main a
\* variable with a fresh id and the size of V named copy(<name of V>), and
\* leaves the variables of main and alt where they were, unchanged; run on a
\* concrete stack, the fragment copies the entries of V to the top in order.
C11_CopyVarPicks ==
    [][(/\ IsCall
        /\ last'.verb = "copy_var"
        /\ last'.var \in Range(data.stack)) =>
          LET V    == last'.var
              k    == get_offset(Tracker, V)
              frag == script'[Len(script')]
              n    == SumSize(data.stack)
              c    == Labelled(n)
              new  == Last(data'.stack)
          IN  /\ Len(script') = Len(script) + 1
              /\ Len(frag) = 2 * V.size
              /\ \A i \in 1..V.size :
                    /\ frag[2 * i - 1] = Push(k + V.size - 1)
                    /\ frag[2 * i] = Op("OP_PICK")
              /\ Front(data'.stack) = data.stack
              /\ data'.altstack = data.altstack
              /\ new.size = V.size
              /\ new.id \notin Ids(data.stack) \cup Ids(data.altstack)
                              \cup DOMAIN data.names \cup {0}
              /\ data'.names =
                    NamesInsert(data.names, new.id,
                                <<"copy(">> \o data.names[V.id] \o <<")">>)
              /\ ~FragRun.error
              /\ FragRun.stack = c \o SubSeq(c, n - k - V.size + 1, n - k)]_vars

\* C11 witness: a copy_var of a variable of size 2 lying under another one
C11_Witness ==
    /\ Len(data.stack) = 3
    /\ Len(script) = 3
    /\ last.verb = "copy_var"
    /\ last.var.size = 2
    /\ data.stack[1] = last.var
    /\ data.stack[3].size = 2
    /\ data.names[data.stack[3].id] = <<"copy(", "v", ")">>
    /\ script[3] = <<Push(2), Op("OP_PICK"), Push(2), Op("OP_PICK")>>

\* the last step was a copy_var_sub_n or a move_var_sub_n of a variable of
\* main, passed as the model holds it, with n inside the variable
IsSubN ==
    /\ IsCall
    /\ last'.verb \in {"copy_var_sub_n", "move_var_sub_n"}
    /\ last'.var \in Range(data.stack)
    /\ last'.n < last'.var.size

\* the opcode each of the two verbs emits
SubNOpcode(verb) == IF verb = "copy_var_sub_n" THEN "OP_PICK" ELSE "OP_ROLL"

\* C12 (as stated): n = 0 selects the top (last-pushed) entry of V: the one
\* OP_ROLL/OP_PICK emitted brings to the top of a concrete stack the entry of
\* V that lies n positions below V's top entry.
C12_SubNCountsFromTop ==
    [][IsSubN =>
          LET V == last'.var
              k == get_offset(Tracker, V)
              N == SumSize(data.stack)
          IN  /\ ~FragRun.error
              /\ Last(FragRun.stack) = Labelled(N)[N - k - last'.n]]_vars

\* C12 (amended): the fragment is (push k+size-1-n, OP_ROLL/OP_PICK) with
\* k = get_offset(V), and n = 0 selects the bottom (first-pushed) entry of V:
\* run on a concrete stack, the fragment brings to the top the entry of V that
\* lies n positions above V's bottom entry.
C12_SubNCountsFromBottom ==
    [][IsSubN =>
          LET V == last'.var
              k == get_offset(Tracker, V)
              N == SumSize(data.stack)
          IN  /\ script'[Len(script')] =
                    <<Push(k + V.size - 1 - last'.n), Op(SubNOpcode(last'.verb))>>
              /\ ~FragRun.error
              /\ Last(FragRun.stack) =
                    Labelled(N)[N - k - V.size + 1 + last'.n]]_vars

\* C12 witness: after a variable of size 2 and one of size 1 above it,
\* move_var_sub_n(V, 0) of the first one rolls the entry at depth 2
C12_Witness ==
    /\ Len(script) = 3
    /\ last.verb = "move_var_sub_n"
    /\ last.n = 0
    /\ last.var.size = 2
    /\ script[2] = <<Push(20)>>
    /\ script[3] = <<Push(2), Op("OP_ROLL")>>

\* C13: move_var_sub_n(V, n) of a variable V of main with n < size takes 1
\* off the size of V in the model, removes V from main when that size becomes
\* 0, pushes one fresh variable of size 1 on top and keeps the sum of the
\* sizes of main; with n >= size the call fails, so no call is made with it.
C13_MoveSubNShrinks ==
    /\ [](\A v \in Handles : \A n \in SubIndexes :
              n >= v.size => ~move_var_sub_n_ok(Tracker, v, n))
    /\ [][(IsCall /\ last'.verb = "move_var_sub_n") =>
              /\ last'.n < last'.var.size
              /\ last'.var \in Range(data.stack) =>
                    LET V   == last'.var
                        new == Last(data'.stack)
                        shrunk(x) == IF x.id = V.id
                                     THEN StackVariable(x.id, x.size - 1)
                                     ELSE x
                        kept(x) == x.id # V.id
                    IN  /\ new.size = 1
                        /\ new.id \notin Ids(data.stack) \cup Ids(data.altstack)
                                        \cup DOMAIN data.names \cup {0}
                        /\ Front(data'.stack) =
                              IF V.size = 1
                              THEN SelectSeq(data.stack, kept)
                              ELSE [i \in 1..Len(data.stack) |-> shrunk(data.stack[i])]
                        /\ SumSize(data'.stack) = SumSize(data.stack)
                        /\ data'.altstack = data.altstack]_vars

\* C13 witness: move_var_sub_n(V, 0) of a variable of size 1 lying under
\* another one: V has left main, the fresh variable is on top
C13_Witness ==
    /\ Len(data.stack) = 2
    /\ Len(script) = 3
    /\ last.verb = "move_var_sub_n"
    /\ last.var.size = 1
    /\ last.var.id = 1
    /\ Ids(data.stack) = {2, 3}
    /\ script[3] = <<Push(1), Op("OP_ROLL")>>

\* C15 (a call on a variable that has no name panics in get_var_name and is
\* no step): explode(V) of the top variable V of main, of size s, replaces V by s
\* variables of size 1 with fresh distinct ids, pushed in order and named
\* <name of V>[i] for i = 0..s-1, and returns them; the sum of the sizes of
\* main, the variables below V, alt and max_stack_size are unchanged.
C15_ExplodeSplits ==
    [][(/\ IsCall
        /\ last'.verb = "explode"
        /\ last'.var = Last(data.stack)) =>
          LET V     == last'.var
              below == Front(data.stack)
              parts == [i \in 1..V.size |-> StackVariable(counter + i, 1)]
          IN  /\ data'.stack = below \o parts
              /\ \A i \in 1..V.size :
                    /\ parts[i].id \notin Ids(data.stack) \cup Ids(data.altstack)
                                         \cup DOMAIN data.names \cup {0}
                    /\ data'.names[parts[i].id] =
                          data.names[V.id] \o <<"[", ToString(i - 1), "]">>
                    /\ parts[i] \in handles'
              /\ \A id \in DOMAIN data.names : data'.names[id] = data.names[id]
              /\ DOMAIN data'.names = DOMAIN data.names \cup Ids(parts)
              /\ SumSize(data'.stack) = SumSize(data.stack)
              /\ data'.altstack = data.altstack
              /\ max_stack_size' = max_stack_size
              /\ script' = script]_vars

\* C15 witness: the explode of a variable of size 2 lying on another variable
C15_Witness ==
    /\ Len(data.stack) = 3
    /\ last.verb = "explode"
    /\ last.var = StackVariable(2, 2)
    /\ data.stack[2] = StackVariable(3, 1)
    /\ data.stack[3] = StackVariable(4, 1)
    /\ data.names[3] = <<"v", "[", "0", "]">>
    /\ data.names[4] = <<"v", "[", "1", "]">>

\* C18: drop(V) is carried out only when V has the id of the top variable of
\* main; it pops that variable and appends the fragment made of size / 2
\* OP_2DROP followed by one OP_DROP iff size is odd; for V as the model holds
\* it, the fragment run on a concrete stack removes exactly as many entries
\* as the size the model recorded for the popped variable.
C18_DropCounts ==
    [][(IsCall /\ last'.verb = "drop") =>
          LET V    == last'.var
              frag == script'[Len(script')]
              N    == SumSize(data.stack)
          IN  /\ Len(data.stack) > 0
              /\ V.id = Last(data.stack).id
              /\ data'.stack = Front(data.stack)
              /\ data'.altstack = data.altstack
              /\ Len(script') = Len(script) + 1
              /\ Len(frag) = (V.size \div 2) + (V.size % 2)
              /\ \A i \in 1..(V.size \div 2) : frag[i] = Op("OP_2DROP")
              /\ V.size % 2 = 1 => Last(frag) = Op("OP_DROP")
              /\ V = Last(data.stack) =>
                    /\ ~FragRun.error
                    /\ FragRun.stack = SubSeq(Labelled(N), 1, N - V.size)
                    /\ Len(FragRun.stack) = SumSize(data'.stack)]_vars

\* C18 witness: the drop of a variable of size 2 lying on another variable
C18_Witness ==
    /\ Len(script) = 3
    /\ last.verb = "drop"
    /\ last.var.size = 2
    /\ Len(data.stack) = 1
    /\ script[3] = <<Op("OP_2DROP")>>

\* C14: join(V) of a variable V of main that is not on top replaces V and the
\* variable directly above it by one variable with the id of V and the sum of
\* the two sizes, at the position of V; the other variables keep their order,
\* alt and the sum of the sizes of main are unchanged; and join_count(V, k)
\* leaves what k successive joins of V leave.
C14_JoinFuses ==
    [][/\ (/\ IsCall
           /\ last'.verb = "join"
           /\ last'.var.id \in Ids(data.stack)) =>
             LET i == JoinIndex(data.stack, last'.var.id)
                 n == Len(data.stack)
             IN  /\ i < n
                 /\ data'.stack =
                       SubSeq(data.stack, 1, i - 1)
                       \o <<StackVariable(last'.var.id,
                                          data.stack[i].size + data.stack[i + 1].size)>>
                       \o SubSeq(data.stack, i + 2, n)
                 /\ SumSize(data'.stack) = SumSize(data.stack)
                 /\ data'.altstack = data.altstack
       /\ (IsCall /\ last'.verb = "join_count") =>
             LET V  == last'.var
                 t1 == join(Tracker, V)
                 t2 == join(t1, join_var(Tracker, V))
             IN  /\ last'.n = 0 => data' = data
                 /\ last'.n = 1 => data' = t1.data
                 /\ last'.n = 2 => data' = t2.data
                 /\ last'.n = 3 => data' = join(t2, join_var(t1, join_var(Tracker, V))).data
                 /\ SumSize(data'.stack) = SumSize(data.stack)
                 /\ script' = script]_vars

\* C14 witness: join_count(V, 2) on the lowest of three variables of size 1
\* leaves one variable of size 3 with the id of V
C14_Witness ==
    /\ last.verb = "join_count"
    /\ last.n = 2
    /\ last.var = StackVariable(1, 1)
    /\ data.stack = <<StackVariable(1, 3)>>
    /\ StackVariable(1, 3) \in handles

\* a sequence from its last element to its first
Reverse(s) == [i \in 1..Len(s) |-> s[Len(s) - i + 1]]

\* the k variables on top of a stack
TopVars(s, k) == SubSeq(s, Len(s) - k + 1, Len(s))

\* C16: to_altstack() moves the top variable of main to the top of alt with
\* its id and size and appends size times OP_TOALTSTACK; from_altstack() does
\* the reverse with OP_FROMALTSTACK; to_altstack_count(k) and
\* from_altstack_count(k) move k variables one by one; to_altstack() followed
\* by from_altstack(), and to_altstack_count(k) followed by
\* from_altstack_count(k), give back the main and alt sequences.
C16_AltstackRoundTrip ==
    /\ [](/\ to_altstack_ok(Tracker) =>
                LET t2 == from_altstack(to_altstack(Tracker))
                IN  t2.data.stack = data.stack /\ t2.data.altstack = data.altstack
           /\ \A k \in 0..Len(data.stack) :
                LET tk == from_altstack_count(to_altstack_count(Tracker, k), k)
                IN  tk.data.stack = data.stack /\ tk.data.altstack = data.altstack)
    /\ [][IsCall =>
            LET k == last'.n
                frags(j) == SubSeq(script', Len(script) + 1, Len(script) + j)
            IN  /\ last'.verb = "to_altstack" =>
                    /\ Len(data.stack) > 0
                    /\ data'.stack = Front(data.stack)
                    /\ data'.altstack = Append(data.altstack, Last(data.stack))
                    /\ frags(1) = <<[i \in 1..Last(data.stack).size |->
                                        Op("OP_TOALTSTACK")]>>
                    /\ Len(script') = Len(script) + 1
                /\ last'.verb = "from_altstack" =>
                    /\ Len(data.altstack) > 0
                    /\ data'.altstack = Front(data.altstack)
                    /\ data'.stack = Append(data.stack, Last(data.altstack))
                    /\ frags(1) = <<[i \in 1..Last(data.altstack).size |->
                                        Op("OP_FROMALTSTACK")]>>
                    /\ Len(script') = Len(script) + 1
                /\ last'.verb = "to_altstack_count" =>
                    /\ k <= Len(data.stack)
                    /\ data'.stack = SubSeq(data.stack, 1, Len(data.stack) - k)
                    /\ data'.altstack =
                          data.altstack \o Reverse(TopVars(data.stack, k))
                    /\ Len(script') = Len(script) + k
                /\ last'.verb = "from_altstack_count" =>
                    /\ k <= Len(data.altstack)
                    /\ data'.altstack = SubSeq(data.altstack, 1, Len(data.altstack) - k)
                    /\ data'.stack =
                          data.stack \o Reverse(TopVars(data.altstack, k))
                    /\ Len(script') = Len(script) + k]_vars

\* C16 witness: three variables, to_altstack_count(2), from_altstack_count(2):
\* main holds the three variables in their first order and alt is empty
C16_Witness ==
    /\ last.verb = "from_altstack_count"
    /\ last.n = 2
    /\ nverbs = 3
    /\ Len(script) = 5
    /\ script[2] = <<Op("OP_TOALTSTACK")>>
    /\ script[5] = <<Op("OP_FROMALTSTACK")>>
    /\ data.stack = <<StackVariable(1, 1), StackVariable(2, 1), StackVariable(3, 1)>>
    /\ data.altstack = <<>>

\* the k variables on top of alt exist and have size 1
AltHasUnits(k) ==
    /\ k <= Len(data.altstack)
    /\ \A i \in 1..k : data.altstack[Len(data.altstack) - i + 1].size = 1

\* the number of journal entries of one kind
JournalCount(log, kind) == Cardinality({i \in 1..Len(log) : log[i].op = kind})

\* what from_altstack_joined(k, name) leaves, seen from the step that made it
JoinedResult(k) ==
    LET top == Last(data.altstack)
    IN  /\ data'.altstack = SubSeq(data.altstack, 1, Len(data.altstack) - k)
        /\ data'.stack = Append(data.stack, StackVariable(top.id, k))
        /\ top.id \in DOMAIN data'.names
        /\ data'.names[top.id] = <<"j">>
        /\ StackVariable(top.id, k) \in handles'
        /\ JournalCount(data'.redo_log, "PopAltstack")
              = JournalCount(data.redo_log, "PopAltstack") + k
        /\ JournalCount(data'.redo_log, "IncreaseSize")
              = JournalCount(data.redo_log, "IncreaseSize") + k - 1

\* C17 (as stated): for every k >= 1 with at least k variables of size 1 on
\* alt, from_altstack_joined(k, name) is carried out and leaves one variable
\* of size k named name on top of main and alt shorter by k.
C17_JoinedForEveryCount ==
    /\ [](\A k \in JoinedCounts :
              (k >= 1 /\ AltHasUnits(k)) => from_altstack_joined_ok(Tracker, k))
    /\ [][(IsCall /\ last'.verb = "from_altstack_joined" /\ AltHasUnits(last'.n))
              => JoinedResult(last'.n)]_vars

\* C17 (amended): for every k >= 2 with at least k variables of size 1 on alt,
\* from_altstack_joined(k, name) pops k variables from alt, makes k-1 joins
\* and leaves one variable of size k named name on top of main, with the id
\* of the variable that was on top of alt, and alt shorter by k; with k = 1
\* (and k = 0) the call fails on its assert.
C17_JoinedFromTwo ==
    /\ [](\A k \in JoinedCounts :
              /\ (k >= 2 /\ AltHasUnits(k)) => from_altstack_joined_ok(Tracker, k)
              /\ k <= 1 => ~from_altstack_joined_ok(Tracker, k))
    /\ [][(IsCall /\ last'.verb = "from_altstack_joined") =>
              /\ last'.n >= 2
              /\ AltHasUnits(last'.n) => JoinedResult(last'.n)]_vars

\* C17 witness: three variables of size 1 on alt, from_altstack_joined(3):
\* one variable of size 3 on main, named, and alt empty
C17_Witness ==
    /\ last.verb = "from_altstack_joined"
    /\ last.n = 3
    /\ data.stack = <<StackVariable(3, 3)>>
    /\ data.altstack = <<>>
    /\ data.names[3] = <<"j">>
    /\ Len(script) = 4

\* the last step was the call c of custom_ex
IsCustomCall(c) ==
    /\ IsCall
    /\ last'.verb = "custom_ex"
    /\ last'.n = c.consumes
    /\ Len(script') = Len(script) + 1
    /\ Last(script') = c.scr

\* C19: custom_ex(script, consumes, output_vars, alt_delta) pops consumes
\* variables from main, pushes one fresh variable per (size, name) of
\* output_vars in order, with that name, and pushes alt_delta fresh variables
\* of size 1 on alt, whatever the combination of its arguments.
C19_CustomAccounting ==
    [][\A c \in MoreCustomCalls : IsCustomCall(c) =>
          LET n    == Len(data.stack)
              outs == SubSeq(data'.stack, n - c.consumes + 1, Len(data'.stack))
              alts == SubSeq(data'.altstack, Len(data.altstack) + 1,
                             Len(data'.altstack))
              old  == Ids(data.stack) \cup Ids(data.altstack)
                          \cup DOMAIN data.names \cup {0}
          IN  /\ c.consumes <= n
              /\ SubSeq(data'.stack, 1, n - c.consumes)
                    = SubSeq(data.stack, 1, n - c.consumes)
              /\ Len(outs) = Len(c.output_vars)
              /\ \A i \in 1..Len(outs) :
                    /\ outs[i].size = c.output_vars[i].size
                    /\ outs[i].id \notin old
                    /\ data'.names[outs[i].id] = c.output_vars[i].name
              /\ SubSeq(data'.altstack, 1, Len(data.altstack)) = data.altstack
              /\ Len(alts) = c.to_alt
              /\ \A j \in 1..Len(alts) :
                    alts[j].size = 1 /\ alts[j].id \notin old
              /\ Cardinality(Ids(outs) \cup Ids(alts)) = Len(outs) + Len(alts)]_vars

\* the last step was a call of op_ifdup or op_roll
IsRefusedCall == IsCall /\ last'.verb \in RefusedVerbs

\* C20 (as stated): op_ifdup and op_roll return an error to their caller, and
\* the model, the journal, the script list, history and counter are as
\* before the call.
C20_RefusedWithError ==
    [][IsRefusedCall =>
          /\ last'.outcome = "error"
          /\ UNCHANGED <<data, script, history, counter>>]_vars

\* C20 (amended): op_ifdup and op_roll panic: they return nothing to their
\* caller and no call follows; the model, the journal, the script list,
\* history, counter, max_stack_size and the breakpoints are as before the call.
C20_RefusedWithPanic ==
    /\ [][IsRefusedCall =>
              /\ last'.outcome = panic
              /\ handles' = handles
              /\ UNCHANGED <<data, script, history, counter, max_stack_size,
                             with_history, breakpoint>>]_vars
    /\ [][~Panicked]_vars

\* C20 witness: op_roll called on a tracker that holds two variables
C20_Witness ==
    /\ last.verb = "op_roll"
    /\ last.outcome = panic
    /\ nverbs = 3
    /\ Len(data.stack) = 2
    /\ Len(script) = 2
    /\ Len(data.redo_log) = 4

-----------------------------------------------------------------------------
(* The optimizer.                                                          *)

\* optimize was called and returned
Returned == outcome = "returned"

\* C26: a script over pushes of small integers, OP_PICK, OP_ROLL, the dup,
\* swap, rot, over and drop opcodes and the altstack moves that runs without
\* error from empty stacks is optimized into a script that runs without error
\* and ends with the same main stack and the same alt stack
C26_OptimizePreservesStacks ==
    (outcome # "ready" /\ ~debug_script(input).error) =>
        /\ Returned
        /\ ~debug_script(optimized).error
        /\ debug_script(optimized).stack = debug_script(input).stack
        /\ debug_script(optimized).altstack = debug_script(input).altstack

\* a script that runs, whose OP_ROLL of the third entry became OP_ROT, and
\* that leaves something on both stacks
C26_Witness ==
    /\ Returned
    /\ input = <<Push(20), Push(21), Push(22), Push(2), Op("OP_ROLL"),
                 Op("OP_TOALTSTACK")>>
    /\ optimized # input
    /\ ~debug_script(input).error
    /\ debug_script(optimized).stack = <<21, 22>>
    /\ debug_script(optimized).altstack = <<20>>

\* C27 as stated: six push 0 become push 0, OP_DUP, OP_2DUP, OP_3DUP
C27_SixZerosEndIn3Dup ==
    (Returned /\ input = RunOf(0, 6)) =>
        optimized = <<Push(0), Op("OP_DUP"), Op("OP_2DUP"), Op("OP_3DUP")>>

\* C27: six consecutive push 0 are optimized into the four instructions
\* push 0, OP_DUP, OP_2DUP, OP_2DUP, which push six zeros
C27_SixZerosEndIn2Dup ==
    (Returned /\ input = RunOf(0, 6)) =>
        /\ optimized = <<Push(0), Op("OP_DUP"), Op("OP_2DUP"), Op("OP_2DUP")>>
        /\ debug_script(optimized).stack = <<0, 0, 0, 0, 0, 0>>

C27_Witness ==
    /\ Returned
    /\ input = RunOf(0, 6)
    /\ Len(optimized) = 4

\* the table of the dup-collapse rule, rows 3 to 15
DupRows ==
    << <<1, 2>>, <<1, 1, 2>>, <<1, 2, 2>>, <<1, 2, 3>>, <<1, 2, 2, 2>>,
       <<1, 2, 2, 3>>, <<1, 2, 3, 3>>, <<1, 2, 2, 2, 3>>, <<1, 2, 2, 3, 3>>,
       <<1, 2, 3, 3, 3>>, <<1, 2, 2, 2, 3, 3>>, <<1, 2, 2, 3, 3, 3>>,
       <<1, 2, 3, 3, 3, 3>> >>

DupNames == <<"OP_DUP", "OP_2DUP", "OP_3DUP">>

\* the first instruction of a run of the digit d, then the row of the table
Collapsed(d, row) ==
    <<Push(d)>> \o [k \in 1..Len(DupRows[row - 2]) |-> Op(DupNames[DupRows[row - 2][k]])]

\* the input is a setup, then exactly n pushes of the digit d, then at most
\* one instruction that is neither that digit nor OP_PICK nor OP_ROLL
IsRunScript(pre, d, n, post) ==
    /\ input = pre \o RunOf(d, n) \o post
    /\ post \notin {<<Push(d)>>, <<Op("OP_PICK")>>, <<Op("OP_ROLL")>>}

PairAt(j) == <<get_digit(input[j + 1]), input[j + 2].op>>

\* the output instruction in the slot of input instruction j, if any
Slot(j) == {optimized[k] : k \in {k \in 1..Len(optimized) : origin[k] = j}}

\* what the pair at j became: the instructions in its two slots
PairNow(j) == <<Slot(j), Slot(j + 1)>>

\* the outcome the rewrite rules give the pair at j
PairRule(j) ==
    LET p == PairAt(j)
    IN CASE p = <<Some(0), "OP_PICK">> -> <<{Op("OP_DUP")}, {}>>
         [] p = <<Some(1), "OP_PICK">> -> <<{Op("OP_OVER")}, {}>>
         [] p = <<Some(0), "OP_ROLL">> -> <<{}, {}>>
         [] p = <<Some(1), "OP_ROLL">> -> <<{Op("OP_SWAP")}, {}>>
         [] p = <<Some(2), "OP_ROLL">> -> <<{Op("OP_ROT")}, {}>>
         [] OTHER -> <<{input[j + 1]}, {input[j + 2]}>>

\* input instructions j and j + 1 are a digit and OP_PICK or OP_ROLL
IsDigitPair(j) ==
    /\ get_digit(input[j + 1]) # None
    /\ input[j + 2].op \in {"OP_PICK", "OP_ROLL"}

\* C29 as stated: every adjacent pair of a digit and OP_PICK or OP_ROLL is
\* rewritten by the rules, wherever it stands
C29_EveryPairRewritten ==
    Returned =>
        \A j \in 0..(Len(input) - 2) : IsDigitPair(j) => PairNow(j) = PairRule(j)

\* the digit at j is the fourth or a later one of a run of identical digits
InLongRun(j) ==
    /\ j >= 3
    /\ \A k \in 1..3 : input[j + 1 - k] = input[j + 1]

\* the input holds an adjacent OP_TOALTSTACK, OP_FROMALTSTACK
HasAltPair(s) ==
    \E j \in 1..(Len(s) - 1) :
        s[j] = Op("OP_TOALTSTACK") /\ s[j + 1] = Op("OP_FROMALTSTACK")

\* C29: in a script without an adjacent OP_TOALTSTACK, OP_FROMALTSTACK, every
\* adjacent pair of a digit and OP_PICK or OP_ROLL whose digit is not the
\* fourth or a later one of a run of identical digits is rewritten by the
\* rules: 0 OP_PICK to OP_DUP, 1 OP_PICK to OP_OVER, 0 OP_ROLL to nothing,
\* 1 OP_ROLL to OP_SWAP, 2 OP_ROLL to OP_ROT, any other pair unchanged; and
\* push 1, push 20, push 2, OP_ROLL becomes push 1, push 20, OP_ROT
C29_PairsOutsideRunsRewritten ==
    Returned =>
        /\ ~HasAltPair(input) =>
              \A j \in 0..(Len(input) - 2) :
                  (IsDigitPair(j) /\ ~InLongRun(j)) => PairNow(j) = PairRule(j)
        /\ input = <<Push(1), Push(20), Push(2), Op("OP_ROLL")>> =>
              optimized = <<Push(1), Push(20), Op("OP_ROT")>>

\* the example of the roll of the third entry
C29_Witness ==
    /\ Returned
    /\ input = <<Push(1), Push(20), Push(2), Op("OP_ROLL")>>
    /\ PairNow(2) = <<{Op("OP_ROT")}, {}>>

\* C30: optimize of OP_TOALTSTACK, OP_FROMALTSTACK returns the empty script,
\* and every adjacent OP_TOALTSTACK, OP_FROMALTSTACK of a script is deleted,
\* the one at index 0 included
C30_AltPairsDeleted ==
    outcome # "ready" =>
        /\ HasAltPair(input) => Returned
        /\ input = <<Op("OP_TOALTSTACK"), Op("OP_FROMALTSTACK")>> => optimized = <<>>
        /\ \A j \in 0..(Len(input) - 2) :
              (input[j + 1] = Op("OP_TOALTSTACK")
                   /\ input[j + 2] = Op("OP_FROMALTSTACK")) =>
                  PairNow(j) = <<{}, {}>>

-----------------------------------------------------------------------------
(* Breakpoints, tables, comparisons, reorderings and conditionals.         *)

\* the step is a call on the tracker
IsCallStep == nverbs' = nverbs + 1

\* the fragments the step appended
NewFrags == SubSeq(script', Len(script) + 1, Len(script'))

\* the index in main of the variable v
IndexOf(s, v) == CHOOSE k \in 1..Len(s) : s[k] = v

\* the entries of the k-th variable of the model s in the concrete stack cs
EntriesOf(cs, s, k) ==
    SubSeq(cs, SumSize(SubSeq(s, 1, k - 1)) + 1, SumSize(SubSeq(s, 1, k)))

\* the concrete stack cs without the entries of the variables of s whose index
\* is in gone
Without(cs, s, gone) ==
    Flatten([k \in 1..Len(s) |-> IF k \in gone THEN <<>> ELSE EntriesOf(cs, s, k)])

\* the breakpoints recorded after from, and before from
Later(from) == {k \in 1..Len(breakpoint) : breakpoint[k].pos > from}

Earlier(from) == {k \in 1..Len(breakpoint) : breakpoint[k].pos < from}

\* the answers of the two queries for from are the nearest breakpoints
NearestBreakpoints(from) ==
    /\ IF Later(from) = {} THEN get_next_breakpoint(Tracker, from) = None
       ELSE \E k \in Later(from) :
               /\ get_next_breakpoint(Tracker, from) = Some(breakpoint[k])
               /\ \A j \in Later(from) : breakpoint[k].pos <= breakpoint[j].pos
               /\ breakpoint[k].pos <= Len(script) - 1
    /\ IF Earlier(from) = {} THEN get_prev_breakpoint(Tracker, from) = None
       ELSE \E k \in Earlier(from) :
               /\ get_prev_breakpoint(Tracker, from) = Some(breakpoint[k])
               /\ \A j \in Earlier(from) : breakpoint[k].pos >= breakpoint[j].pos
               /\ breakpoint[k].pos <= Len(script) - 1

\* C25: set_breakpoint(name) appends one empty fragment and records
\* (script_len - 1, name); for every from, get_next_breakpoint(from) is the
\* recorded breakpoint with the smallest position above from and
\* get_prev_breakpoint(from) the one with the greatest position below from,
\* none when there is none, and every position returned is at most
\* script_len - 1
C25_Breakpoints ==
    /\ [](\A from \in 0..(Len(script) + 1) : NearestBreakpoints(from))
    /\ [][(IsCallStep /\ last'.verb = "set_breakpoint") =>
              /\ script' = Append(script, <<>>)
              /\ breakpoint' =
                     Append(breakpoint, [pos |-> Len(script') - 1, name |-> <<"bp">>])]_vars

\* two breakpoints with a fragment between them: each is the next or the
\* previous one of a position
C25_Witness ==
    /\ Len(breakpoint) = 2
    /\ breakpoint[1].pos = 0
    /\ breakpoint[2].pos = 2
    /\ get_next_breakpoint(Tracker, 0) = Some(breakpoint[2])
    /\ get_prev_breakpoint(Tracker, 2) = Some(breakpoint[1])
    /\ get_next_breakpoint(Tracker, 2) = None

\* the step is get_value_from_table(T, offset) with an index variable of
\* size 1 on top of main and T, as main holds it, below
IsTableLookup ==
    /\ IsCallStep
    /\ last'.verb = "get_value_from_table"
    /\ last'.var \in Range(Front(data.stack))
    /\ Last(data.stack).size = 1

\* the concrete stacks of the lookup: distinct entries under the index idx
TableStacks(idx) == Append(Labelled(SumSize(data.stack) - 1), idx)

\* C24: get_value_from_table(T, offset), called with a size-1 index variable
\* on top of main and T below it, emits push(get_offset(T) - 1 + offset),
\* OP_ADD, OP_PICK, consumes the index variable, leaves one fresh size-1
\* variable named from:(<name of T>) on top, leaves T and the rest of the
\* model unchanged, and on a concrete stack picks the entry of T that is
\* index + offset positions below the top entry of T
C24_TableLookup ==
    [][IsTableLookup =>
          LET T == last'.var
              offset == last'.n
              k == IndexOf(data.stack, T)
              above == SumSize(SubSeq(data.stack, k + 1, Len(data.stack)))
              v == Last(data'.stack)
          IN  /\ NewFrags = << <<Push(above - 1 + offset)>>, <<Op("OP_ADD")>>,
                               <<Op("OP_PICK")>> >>
              /\ data'.stack = Append(Front(data.stack), v)
              /\ data'.altstack = data.altstack
              /\ v.size = 1
              /\ v.id \notin Ids(data.stack) \cup Ids(data.altstack)
              /\ data'.names[v.id] = <<"from:(">> \o data.names[T.id] \o <<")">>
              /\ \A idx \in 0..(T.size - 1 - offset) :
                    LET cs == TableStacks(idx)
                        run == ExecFrom([stack |-> cs, altstack |-> <<>>,
                                         error |-> FALSE], Flatten(NewFrags))
                        top == SumSize(SubSeq(data.stack, 1, k))
                    IN  /\ ~run.error
                        /\ run.stack = Append(Front(cs), cs[top - (idx + offset)])]_vars

\* a table of two entries read with the offset 1
C24_Witness ==
    /\ last.verb = "get_value_from_table"
    /\ last.n = 1
    /\ last.var.size = 2
    /\ Len(data.stack) = 2
    /\ data.stack[1] = last.var
    /\ Len(script) = 5
    /\ script[3] = <<Push(1)>>

\* the step is equals(V1, consume_1, V2, consume_2) on two variables as main
\* holds them
IsEquals ==
    /\ IsCallStep
    /\ last'.verb = "equals"
    /\ last'.var \in Range(data.stack)
    /\ last'.var2 \in Range(data.stack)

\* the indexes in main of the variables the call consumes
Consumed ==
    (IF last'.consume_1 THEN {IndexOf(data.stack, last'.var)} ELSE {})
        \cup (IF last'.consume_2 THEN {IndexOf(data.stack, last'.var2)} ELSE {})

\* the number of OP_EQUALVERIFY in a script
Verifies(scr) == Cardinality({k \in 1..Len(scr) : scr[k] = Op("OP_EQUALVERIFY")})

\* C22: equals(V1, consume1, V2, consume2) on distinct variables of equal
\* size s emits exactly s OP_EQUALVERIFY; run on a concrete stack the
\* fragments succeed exactly when entry i of V1 equals entry i of V2 for
\* every i, and then leave the stack without the entries of the consumed
\* variables; afterwards each consumed variable is absent from main, each
\* other variable is in main as it was, and no temporary variable remains
C22_EqualsCompares ==
    [][IsEquals =>
          LET V1 == last'.var
              V2 == last'.var2
              k1 == IndexOf(data.stack, V1)
              k2 == IndexOf(data.stack, V2)
          IN  /\ V1.size = V2.size
              /\ V1.id # V2.id
              /\ Verifies(Flatten(NewFrags)) = V1.size
              /\ data'.stack =
                     SelectSeq(data.stack,
                               LAMBDA w : IndexOf(data.stack, w) \notin Consumed)
              /\ data'.altstack = data.altstack
              /\ \E frags \in {Flatten(NewFrags)}, gone \in {Consumed} :
                    \A cs \in [1..SumSize(data.stack) -> {1, 2}] :
                       \E run \in {ExecFrom([stack |-> cs, altstack |-> <<>>,
                                              error |-> FALSE], frags)} :
                          /\ run.error <=>
                                 EntriesOf(cs, data.stack, k1) # EntriesOf(cs, data.stack, k2)
                          /\ ~run.error => run.stack = Without(cs, data.stack, gone)]_vars

\* two variables of size 2, the second on top and consumed in place, the
\* first copied
C22_Witness ==
    /\ last.verb = "equals"
    /\ last.var.size = 2
    /\ ~last.consume_1
    /\ last.consume_2
    /\ data.stack = <<last.var>>
    /\ Len(script) = 2 + 4

\* the k top variables of main all have size 1
TopSizesOne(k) ==
    /\ Len(data.stack) >= k
    /\ \A j \in 0..(k - 1) : Peek(data, j).size = 1

\* C21: a call that commits a symbolic bug does not go through: join of the
\* top variable or of a variable not in main, equals with different sizes or
\* the same id, op_tuck, op_rot, op_swap, op_2swap, op_2rot on variables whose
\* sizes are not 1
C21_SymbolicBugsFail ==
    [][IsCallStep =>
          /\ last'.verb = "join" =>
                /\ last'.var.id \in Ids(data.stack)
                /\ last'.var.id # Last(data.stack).id
          /\ last'.verb = "equals" =>
                /\ last'.var.size = last'.var2.size
                /\ last'.var.id # last'.var2.id
          /\ last'.verb \in {"op_tuck", "op_swap"} => TopSizesOne(2)
          /\ last'.verb = "op_rot" => TopSizesOne(3)
          /\ last'.verb = "op_2swap" => TopSizesOne(4)
          /\ last'.verb = "op_2rot" => TopSizesOne(6)]_vars

\* the variables a call declared as outputs are the top of main, in order
OutputsOnTop(s, output_vars) ==
    /\ Len(s) >= Len(output_vars)
    /\ \A i \in 1..Len(output_vars) :
          s[Len(s) - Len(output_vars) + i].size = output_vars[i].size

\* C23: open_if appends OP_IF to the parent and removes the selector from its
\* model; after any verbs on the two branch trackers, end_if(T, F, ...)
\* appends to the parent the fragments issued on T in order, OP_ELSE, the
\* fragments issued on F in order, OP_ENDIF, without the OP_DROP open_if
\* applied to the clones, and applies consumes, output_vars and alt_delta to
\* the parent's model
C23_IfProgram ==
    [][IsCallStep =>
          /\ last'.verb = "open_if" =>
                /\ NewFrags = << <<Op("OP_IF")>> >>
                /\ data'.stack = Front(data.stack)
                /\ data'.altstack = data.altstack
          /\ last'.verb = "end_if" =>
                /\ NewFrags =
                       << Flatten(branches.issued.if_true) \o <<Op("OP_ELSE")>>
                              \o Flatten(branches.issued.if_false)
                              \o <<Op("OP_ENDIF")>> >>
                /\ Len(data'.stack) = Len(data.stack) - last'.n + Len(last'.output_vars)
                /\ SubSeq(data'.stack, 1, Len(data.stack) - last'.n)
                       = SubSeq(data.stack, 1, Len(data.stack) - last'.n)
                /\ OutputsOnTop(data'.stack, last'.output_vars)
                /\ Len(data'.altstack) = Len(data.altstack) + last'.to_alt
                /\ SubSeq(data'.altstack, 1, Len(data.altstack)) = data.altstack
                /\ \A i \in (Len(data.altstack) + 1)..Len(data'.altstack) :
                       data'.altstack[i].size = 1]_vars

\* the sums of sizes over main the model has had during the step: at each
\* fragment the step appended (the model execute_step replays for it) and
\* at the end of the call
SumsSeen ==
    {SumSize(data'.stack)}
        \cup {SumSize(new_from_redo_height(data', history'[k]).stack) :
                  k \in (Len(history) + 1)..Len(history')}

\* the greatest element of a non-empty set of numbers
MaxOf(S) == CHOOSE m \in S : \A n \in S : n <= m

\* C33: max_stack_size is the largest sum of sizes over main the model has
\* had so far: it is at least the current sum, never decreases, and each
\* call leaves it at the larger of its old value and the sums of the call
C33_MaxStackSize ==
    /\ [](max_stack_size >= SumSize(data.stack))
    /\ [][/\ max_stack_size' >= max_stack_size
          /\ IsCallStep =>
                \E seen \in {SumsSeen \cup {max_stack_size}} :
                   max_stack_size' = MaxOf(seen)]_vars

\* main was larger before than it is after an op_swap, which pushes the
\* variables back without going through push
C33_Witness ==
    /\ last.verb = "op_swap"
    /\ SumSize(data.stack) < max_stack_size

\* the journal entry each mutating operation of StackData writes
RedoOpOf ==
    [push_stack |-> "PushStack", push_altstack |-> "PushAltstack",
     pop_stack |-> "PopStack", pop_altstack |-> "PopAltstack",
     set_name |-> "SetName", remove_name |-> "RemoveName",
     remove_var |-> "RemoveVar", increase_size |-> "IncreaseSize",
     decrease_size |-> "DecreaseSize"]

\* C34: on a journal-enabled StackData every mutating operation appends
\* exactly one journal entry, its own, and leaves the earlier entries as they
\* were; the StackData new_from_redo_height(h) returns has journaling
\* disabled and an empty journal, for every h
C34_JournalAppendOnly ==
    [][/\ data.with_redo_log
       /\ data'.with_redo_log
       /\ Len(data'.redo_log) = Len(data.redo_log) + 1
       /\ SubSeq(data'.redo_log, 1, Len(data.redo_log)) = data.redo_log
       /\ Last(data'.redo_log).op = RedoOpOf[last'.verb]
       /\ \A h \in 0..Len(data'.redo_log) :
             \E replayed \in {new_from_redo_height(data', h)} :
                /\ ~replayed.with_redo_log
                /\ replayed.redo_log = <<>>]_vars

\* a journal of three entries, the last written by a decrease_size
C34_Witness ==
    /\ Len(data.redo_log) = 3
    /\ last.verb = "decrease_size"
    /\ Last(data.redo_log).op = "DecreaseSize"

\* the variables the step pushed on main
NewVars == SubSeq(data'.stack, Len(data.stack) + 1, Len(data'.stack))

\* the step left main as it was and pushed one fresh size-1 variable for
\* each source, carrying the name of the source
PushedCopiesOf(sources) ==
    /\ Len(data'.stack) = Len(data.stack) + Len(sources)
    /\ SubSeq(data'.stack, 1, Len(data.stack)) = data.stack
    /\ data'.altstack = data.altstack
    /\ \A i \in 1..Len(sources) :
          /\ NewVars[i].size = 1
          /\ NewVars[i].id \notin Ids(data.stack) \cup Ids(data.altstack)
          /\ \A j \in 1..Len(sources) : NewVars[i].id = NewVars[j].id => i = j
          /\ data'.names[NewVars[i].id] = data.names[sources[i].id]

\* C35: op_over pushes one fresh size-1 variable named after the variable
\* second from top, op_2over two named after the variables fourth and third
\* from top; the variables already in main stay in place and every variable
\* returned is one of those pushed
C35_OverPushesCopies ==
    [][IsCallStep =>
          /\ last'.verb = "op_over" =>
                /\ PushedCopiesOf(<<Peek(data, 1)>>)
                /\ NewFrags = << <<Op("OP_OVER")>> >>
                /\ Range(last'.ret) \subseteq Range(NewVars)
          /\ last'.verb = "op_2over" =>
                /\ PushedCopiesOf(<<Peek(data, 3), Peek(data, 2)>>)
                /\ NewFrags = << <<Op("OP_2OVER")>> >>
                /\ Range(last'.ret) \subseteq Range(NewVars)]_vars

\* the variable of main that has the id of the handle v
InModel(v) == CHOOSE w \in Range(data.stack) : w.id = v.id

\* C39: move_var(V), drop(V) and copy_var(V) act on the size the model
\* records for the id of V, whatever size the caller's handle carries: after
\* move_var main holds the same (id, size) pairs as before, and the fragment
\* rolls, picks or drops as many entries as the model's size of V
C39_ActsOnModelSize ==
    [][(/\ IsCall
        /\ last'.verb \in {"move_var", "drop", "copy_var"}
        /\ last'.var.id \in Ids(data.stack)) =>
          LET V == InModel(last'.var)
              k == get_offset(Tracker, V)
          IN  /\ last'.verb = "move_var" =>
                    /\ Range(data'.stack) = Range(data.stack)
                    /\ Len(data'.stack) = Len(data.stack)
                    /\ k > 0 => NewFrags = <<move_from(k, V.size)>>
              /\ last'.verb = "drop" => NewFrags = <<drop_count(V.size)>>
              /\ last'.verb = "copy_var" =>
                    NewFrags = <<copy_from(k, V.size)>>]_vars

\* C36: a call of optimize never indexes the instruction list outside its
\* bounds and its index never goes below 0: no turn of the loop ends in the
\* panic of instructions[i-1] at i = 0 or of i -= 1 at i = 0, and i never
\* wraps
C36_IndexInRange ==
    outcome # "ready" =>
        \E st \in {optimize_run(input, overflow_checks)} :
            /\ st.out # "panic"
            /\ st.i # usize_MAX

\* C37: the script optimize returns is left as it is by a second call
C37_Idempotent ==
    Returned =>
        /\ optimize_ok(optimized, overflow_checks)
        /\ optimize(optimized, overflow_checks) = optimized

\* C38: the loop of optimize comes to an end on every script, by the return
\* of the call or by one of its panics, the instruction list never grows
\* from turn to turn, and the script returned has no more instructions than
\* the one given
C38_TerminatesNeverLonger ==
    /\ <>(outcome # "ready")
    /\ [](/\ Len(loop.ins) <= Len(input)
          /\ Returned => Len(optimized) <= Len(input))

\* the call returned after its turns with a shorter script: the run of five
\* zeros
C38_Witness ==
    /\ Returned
    /\ input = RunOf(0, 5)
    /\ Len(optimized) = 4
    /\ loop.i = loop.len


\* C40: in the interactive debugger on a tracker with at least one
\* fragment, after any sequence of key presses the current step is within
\* 0..script_len-1: the step shown is always an index of the script list
\* and of the history, and showing it never panics
C40_StepInRange ==
    (session.open /\ Len(script) >= 1) =>
        /\ ~session.panicked
        /\ session.step \in 0..(Len(script) - 1)
        /\ session.step < Len(history)
        /\ res # None
        /\ res[1].step_number = session.step

\* a key press took the session to a breakpoint at the last step
C40_Witness ==
    /\ session.open
    /\ last.verb = "key"
    /\ session.bp_name # <<>>
    /\ session.max_step >= 1
    /\ session.step = session.max_step

\* a step of the debugger that ran execute_step
IsExecuteStep ==
    /\ last'.verb \in {"execute_step", "interactive", "key"}
    /\ res' # None

\* C31: execute_step(tracker, k) reports success exactly when k is the last
\* step and the executor reports success for fragments 0..k put together;
\* an executor error is captured in the result, and the model, the journal,
\* the script list and the history of the tracker are as before, so every
\* step of the script list can still be executed
C31_SuccessOnlyAtLastStep ==
    [][IsExecuteStep =>
        \E k \in {res'[1].step_number}, r \in {res'[1].result} :
          \E e \in {debug_script(Flatten(SubSeq(script, 1, k + 1)))} :
            /\ r.success <=> (k = Len(script) - 1 /\ ExecSuccess(e))
            /\ r.error <=> e.error
            /\ e.error => r.error_msg # <<"None">> /\ ~r.success
            /\ data' = data
            /\ script' = script
            /\ history' = history
            /\ \A j \in 0..(Len(script) - 1) : execute_step_ok(Tracker, j)]_vars

\* execute_step was called for the last step and the executor failed there
C31_Witness ==
    /\ last.verb = "execute_step"
    /\ res # None
    /\ res[1].step_number = Len(script) - 1
    /\ res[1].result.error
    /\ ~res[1].result.success
    /\ Len(script) >= 3

\* the concrete entries below variable i of a symbolic stack
EntriesBelow(stack, i) == SumSize(SubSeq(stack, 1, i - 1))

\* the concrete entries above variable i of a symbolic stack
EntriesAbove(stack, i) == SumSize(SubSeq(stack, i + 1, Len(stack)))

\* C32: execute_step gives each variable exactly size consecutive concrete
\* entries, bottom-to-top on main and top-to-bottom on alt: when the sizes
\* sum to the concrete depth, variable i of main has the entries just above
\* those of the variables below it, and variable i of alt has the entries
\* just below those of the variables above it, read from the top; so every
\* entry goes to exactly one variable and none is lost
C32_EachVariableItsEntries ==
    [][IsExecuteStep =>
        \E k \in {res'[1].step_number}, r \in {res'[1].result} :
          \E d \in {new_from_redo_height(data, history[k + 1])},
             e \in {debug_script(Flatten(SubSeq(script, 1, k + 1)))} :
            \E main \in {convert_stack(e.stack)},
               alt \in {convert_stack(e.altstack)} :
              /\ Len(r.stack) = Len(d.stack)
              /\ Len(r.altstack) = Len(d.altstack)
              /\ SumSize(d.stack) = Len(main) =>
                    \A i \in 1..Len(d.stack) :
                        /\ r.stack[i].id = d.stack[i].id
                        /\ r.stack[i].size = d.stack[i].size
                        /\ r.stack[i].real_sub =
                              Flatten([j \in 1..d.stack[i].size |->
                                  main[EntriesBelow(d.stack, i) + j]])
              /\ SumSize(d.altstack) = Len(alt) =>
                    \A i \in 1..Len(d.altstack) :
                        \E line \in {r.altstack[Len(d.altstack) - i + 1]} :
                            /\ line.id = d.altstack[i].id
                            /\ line.size = d.altstack[i].size
                            /\ line.real_sub =
                                  Flatten([j \in 1..d.altstack[i].size |->
                                      alt[Len(alt) - EntriesAbove(d.altstack, i)
                                          - j + 1]])]_vars

\* execute_step paired a variable of two entries on alt and a variable on
\* main with the concrete entries of a run without error
C32_Witness ==
    /\ last.verb = "execute_step"
    /\ res # None
    /\ ~res[1].result.error
    /\ \E i \in 1..Len(res[1].result.altstack) :
          /\ res[1].result.altstack[i].size = 2
          /\ Len(res[1].result.altstack[i].real_sub) >= 2
    /\ \E i \in 1..Len(res[1].result.stack) :
          res[1].result.stack[i].real_sub # <<>>

=============================================================================
